---- MODULE Spec2Model ----
(***************************************************************************)
(* opencron: the scheduling and execution engine (internal/engine/cron.go), *)
(* the task store it reads and writes (internal/store) and the request     *)
(* layer that drives both (internal/handlers/api.go), as one state machine *)
(* of concurrently running goroutines.                                     *)
(***************************************************************************)
EXTENDS Integers, Sequences, FiniteSets, TLC

\* ------------------------------------------------------------------ bounds
NumThreads == 2      \* goroutines that serve requests, firings and janitor passes
MaxId == 2           \* rows the tasks table ever holds (AUTOINCREMENT ids 1..MaxId)
MaxOps == 2          \* requests and firings begun after Start()
MaxTime == 2         \* last instant of the wall clock
MaxFaults == 1       \* store and file-system calls that return an error

\* -------------------------------------------------------- program constants
DayLen == 2          \* instants per calendar day (now.Format("20060102"))
LogRetention == 1    \* Engine.LogRetention, in instants

Threads == 1..NumThreads
Ids == 1..MaxId
NoThread == 0

\* ------------------------------------------------------------------ values
GoodSchedule == "* * * * *"
BadSchedule == "not a cron"
Schedules == {GoodSchedule, BadSchedule}
Commands == {"", "echo hi"}

\* models.Task
Task(id, name, schedule, command, enabled, one_shot, created_at, last_run) ==
  [id |-> id, name |-> name, schedule |-> schedule, command |-> command,
   enabled |-> enabled, one_shot |-> one_shot,
   created_at |-> created_at, last_run |-> last_run]

\* the zero value of models.Task (var t models.Task)
ZeroTask == Task(0, "", "", "", FALSE, FALSE, 0, 0)

EmptyFn == [i \in {} |-> 0]

Range(f) == {f[x] : x \in DOMAIN f}

\* map assignment m[k] = v
Put(m, k, v) == [x \in DOMAIN m \cup {k} |-> IF x = k THEN v ELSE m[x]]

\* delete(m, k) / DELETE ... WHERE id=k
Drop(m, ks) == [x \in DOMAIN m \ ks |-> m[x]]

\* ------------------------------------------------------------ request inputs
\* bodies of POST /api/tasks (json-decoded into models.Task)
CreateInputs ==
  { Task(0, "a", GoodSchedule, "echo hi", TRUE, TRUE, 0, 0),
    Task(0, "a", BadSchedule, "echo hi", TRUE, FALSE, 0, 0),
    Task(0, "a", GoodSchedule, "", FALSE, FALSE, 0, 0) }

\* taskUpdateRequest: the fields present in the body (absent = nil pointer)
UpdateInputs ==
  { EmptyFn,
    [enabled |-> FALSE],
    [one_shot |-> FALSE],
    [command |-> ""],
    [name |-> "b", schedule |-> BadSchedule] }

\* rows the database file may already hold when the process starts
InitStores ==
  { EmptyFn,
    1 :> Task(1, "a", GoodSchedule, "echo hi", TRUE, FALSE, 0, 0),
    1 :> Task(1, "a", GoodSchedule, "echo hi", TRUE, TRUE, 0, 0) }

\* ------------------------------------------------------------------- store
\* Store.GetTasks: SELECT ... FROM tasks
GetTasks(s) == [i \in DOMAIN s |-> s[i]]

\* a GetTaskByID that scans no row and reports no error
GetTaskByID_ZeroRow(s, id) ==
  [err |-> "nil", t |-> IF id \in DOMAIN s THEN s[id] ELSE ZeroTask]

\* Store.GetTaskByID: the row, or sql.ErrNoRows
GetTaskByID(s, id) ==
  IF id \in DOMAIN s THEN [err |-> "nil", t |-> s[id]]
  ELSE [err |-> "ErrNoRows", t |-> ZeroTask]

\* Store.CreateTask: INSERT with created_at = time.Now(), last_run = time.Time{}
StoreCreateTask(s, id, task, at) ==
  Put(s, id, [task EXCEPT !.id = id, !.created_at = at, !.last_run = 0])

\* an UpdateTask that writes the whole row it was given
StoreUpdateTask_WholeRow(s, task) ==
  IF task.id \in DOMAIN s THEN [s EXCEPT ![task.id] = task] ELSE s

\* Store.UpdateTask: UPDATE tasks SET name, schedule, command, enabled, one_shot WHERE id
StoreUpdateTask(s, task) ==
  IF task.id \in DOMAIN s
  THEN [s EXCEPT ![task.id] =
          [@ EXCEPT !.name = task.name, !.schedule = task.schedule,
                    !.command = task.command, !.enabled = task.enabled,
                    !.one_shot = task.one_shot]]
  ELSE s

\* an UpdateLastRun that writes nothing
StoreUpdateLastRun_Noop(s, id, at) == s

\* Store.UpdateLastRun: UPDATE tasks SET last_run WHERE id
StoreUpdateLastRun(s, id, at) ==
  IF id \in DOMAIN s THEN [s EXCEPT ![id].last_run = at] ELSE s

\* a DeleteTask that deletes nothing
StoreDeleteTask_Noop(s, id) == s

\* Store.DeleteTask: DELETE FROM tasks WHERE id
StoreDeleteTask(s, id) == Drop(s, {id})

\* taskUpdateRequest.isEmpty
isEmpty(u) == DOMAIN u = {}

\* applyTaskUpdate
applyTaskUpdate(task, u) ==
  [f \in DOMAIN task |-> IF f \in DOMAIN u THEN u[f] ELSE task[f]]

\* ------------------------------------------------------------------- state
VARIABLES
  store,      \* the tasks table: id -> models.Task
  nextId,     \* the table's AUTOINCREMENT counter
  entries,    \* Engine.entries: task id -> cron.EntryID (the registry)
  cron,       \* the schedule engine's live entries: EntryID -> job
  nextEntry,  \* the schedule engine's last allocated EntryID
  running,    \* cron.Start() has been called
  mu,         \* Engine.mu: the goroutine holding it, or NoThread
  now,        \* the wall clock (time.Now())
  dirExists,  \* <dataDir>/logs exists
  files,      \* the entries of <dataDir>/logs: name -> [mtime, lines, isDir, inside]
  serving,    \* Start() has returned and requests are served
  goPurge,    \* the goroutine of "go e.PurgeOldLogs()" has not run yet
  ops,        \* requests and firings begun so far
  pc,         \* per goroutine: the statement it is at
  op,         \* per goroutine: the operation it serves
  taskID,     \* per goroutine: the id a request names
  req,        \* per goroutine: the decoded taskUpdateRequest
  t,          \* per goroutine: the models.Task it holds (runTask's t, existing)
  tnow,       \* per goroutine: runTask's now
  tasks,      \* per goroutine: Reload's tasks
  fh,         \* per goroutine: the log file runTask has open
  err,        \* per goroutine: the error its operation returns
  deleted,    \* per goroutine: runTask's deleted
  did,        \* per goroutine: the calls its operation has made, in order
  consumed,   \* history: ids whose one-shot run has returned deleted = true
  last,       \* history: what the most recent Reload() to return read and built,
              \* and whether it read the same list as the Reload() before it
  faults,     \* store and file-system calls that have failed so far
  resp        \* per goroutine: the body of the response it has written

vars == <<store, nextId, entries, cron, nextEntry, running, mu, now, dirExists,
          files, serving, goPurge, ops, pc, op, taskID, req, t, tnow, tasks,
          fh, err, deleted, did, consumed, last, faults, resp>>

storeVars == <<store, nextId>>
cronVars == <<entries, cron, nextEntry>>
fsVars == <<dirExists, files>>
reqVars == <<taskID, req>>
histVars == <<consumed, last>>

\* ------------------------------------------------------------- schedule engine
\* a parser that accepts every expression
ParseOK_Always(schedule) == TRUE

\* AddFunc's parser: nil error for a well-formed expression
ParseOK(schedule) == schedule = GoodSchedule

\* the closure addTask registers: it captures its own copy of t
TaskJob(task) == [kind |-> "task", t |-> task]

\* the closure StartLogJanitor registers
JanitorJob == [kind |-> "janitor", t |-> ZeroTask]

\* a Reload that registers every task, enabled or not
ShouldSchedule_Always(task) == TRUE

\* Reload's filter: if t.Enabled
ShouldSchedule(task) == task.enabled

\* Engine.addTask on st = [entries, cron, nextEntry]
addTask(st, task) ==
  IF ParseOK(task.schedule)
  THEN [entries |-> Put(st.entries, task.id, st.nextEntry + 1),
        cron |-> Put(st.cron, st.nextEntry + 1, TaskJob(task)),
        nextEntry |-> st.nextEntry + 1]
  ELSE st

Min(S) == CHOOSE x \in S : \A y \in S : x <= y

\* a Reload whose loop stops at the first malformed schedule
RECURSIVE addTasks_StopAtError(_, _, _)
addTasks_StopAtError(ids, snap, st) ==
  IF ids = {} THEN st
  ELSE LET i == Min(ids) IN
       IF ShouldSchedule(snap[i]) /\ ~ParseOK(snap[i].schedule)
       THEN st
       ELSE addTasks_StopAtError(ids \ {i}, snap,
              IF ShouldSchedule(snap[i]) THEN addTask(st, snap[i]) ELSE st)

\* Reload's loop: for _, t := range tasks { if t.Enabled { e.addTask(t) } }
RECURSIVE addTasks(_, _, _)
addTasks(ids, snap, st) ==
  IF ids = {} THEN st
  ELSE LET i == Min(ids) IN
       addTasks(ids \ {i}, snap,
                IF ShouldSchedule(snap[i]) THEN addTask(st, snap[i]) ELSE st)

\* a Reload that cancels no trigger
RemoveAll_None(c, reg) == c

\* a Reload that cancels every trigger of the schedule engine
RemoveAll_Everything(c, reg) == Drop(c, DOMAIN c)

\* Reload's first loop: cron.Remove of every registered entry
RemoveAll(c, reg) == Drop(c, Range(reg))

\* a Reload that does not wait for the mutex
CanLock_Always(th) == TRUE

\* e.mu.Lock() returns only when no goroutine holds the mutex
CanLock(th) == mu = NoThread

\* a Reload that returns without unlocking
Unlock_Never(th) == th

\* the deferred e.mu.Unlock(): the mutex after Reload returns
Unlock(th) == NoThread

\* ---------------------------------------------------------------- log files
NoFile == <<>>
Unlinked == <<"unlinked">>
\* a file name without the date
DailyName_NoDate(id, day) == <<"task", id>>

DailyName(id, day) == <<"task", id, day>>
LegacyName(id) == <<"task", id>>

\* now.Format("20060102")
Day(at) == at \div DayLen

\* a regular file directly inside <dataDir>/logs
File(mtime, lines) ==
  [mtime |-> mtime, lines |-> lines, isDir |-> FALSE, inside |-> EmptyFn]

\* a subdirectory of <dataDir>/logs with the entries inside it
Dir(mtime, inside) ==
  [mtime |-> mtime, lines |-> <<>>, isDir |-> TRUE, inside |-> inside]

\* os.OpenFile(O_APPEND|O_CREATE|O_WRONLY)
OpenFile(fs, name, at) ==
  IF name \in DOMAIN fs THEN fs ELSE Put(fs, name, File(at, <<>>))

\* fmt.Fprintf(f, ...) and the command's output: a write through a handle whose
\* file was unlinked meanwhile reaches no directory entry
Write(fs, h, lines, at) ==
  IF h \in DOMAIN fs
  THEN [fs EXCEPT ![h] = [@ EXCEPT !.mtime = at, !.lines = @ \o lines]]
  ELSE fs

\* a comparison that also expires a file exactly at the cutoff
Expired_AtCutoff(mtime, cutoff) == mtime <= cutoff

\* PurgeOldLogs: info.ModTime().Before(cutoff)
Expired(mtime, cutoff) == mtime < cutoff

\* PurgeOldLogs: the names one pass removes, of the entries os.ReadDir lists
Purged(fs, at) ==
  {n \in DOMAIN fs : ~fs[n].isDir /\ Expired(fs[n].mtime, at - LogRetention)}

\* -------------------------------------------------------------------- Init
\* what <dataDir>/logs may hold when the process starts
\* a fresh data directory has no logs directory; one that has been used has
\* a legacy log and, here, a subdirectory that holds an old log of its own
InitDir(s) ==
  IF s = EmptyFn
  THEN [exists |-> FALSE, files |-> EmptyFn]
  ELSE [exists |-> TRUE,
        files |-> (LegacyName(1) :> File(0, <<"legacy">>)) @@
                  (<<"archive">> :> Dir(0, LegacyName(1) :> File(0, <<"archived">>)))]

\* engine.New followed by the call of Start() in main
Init ==
  /\ store \in InitStores
  /\ nextId = Cardinality(DOMAIN store) + 1
  /\ entries = EmptyFn
  /\ cron = EmptyFn
  /\ nextEntry = 0
  /\ running = FALSE
  /\ mu = NoThread
  /\ now = 1
  /\ dirExists = InitDir(store).exists
  /\ files = InitDir(store).files
  /\ serving = FALSE
  /\ goPurge = FALSE
  /\ ops = 0
  /\ pc = [th \in Threads |-> IF th = 1 THEN "Start" ELSE "idle"]
  /\ op = [th \in Threads |-> IF th = 1 THEN "Start" ELSE "none"]
  /\ taskID = [th \in Threads |-> 0]
  /\ req = [th \in Threads |-> EmptyFn]
  /\ t = [th \in Threads |-> ZeroTask]
  /\ tnow = [th \in Threads |-> 0]
  /\ tasks = [th \in Threads |-> EmptyFn]
  /\ fh = [th \in Threads |-> NoFile]
  /\ err = [th \in Threads |-> "nil"]
  /\ deleted = [th \in Threads |-> FALSE]
  /\ did = [th \in Threads |-> <<>>]
  /\ consumed = {}
  /\ last = [n |-> 0, ok |-> FALSE, same |-> FALSE, snap |-> EmptyFn, reg |-> EmptyFn]
  /\ faults = 0
  /\ resp = [th \in Threads |-> <<>>]

\* goroutines are anonymous: a new operation takes the first free one
Free(th) == pc[th] = "idle" /\ \A x \in Threads : x < th => pc[x] # "idle"

Set(f, th, v) == [f EXCEPT ![th] = v]
Did(th, what) == did' = [did EXCEPT ![th] = @ \o what]

RunOps == {"RunNow", "Fire"}

\* the statement that follows a call of Reload()
AfterReload(th) ==
  CASE op[th] = "Start" -> "StartLogJanitor"
    [] OTHER -> "ret"

\* ------------------------------------------------------------- Engine.Start
\* a Start() that starts the janitor before it reloads
StartCron_JanitorFirst(th) ==
  /\ pc[th] = "Start"
  /\ running' = TRUE
  /\ pc' = Set(pc, th, "StartLogJanitor")
  /\ Did(th, <<"cron.Start">>)
  /\ UNCHANGED <<resp, histVars, storeVars, cronVars, mu, now, fsVars, serving, goPurge, ops,
                 op, reqVars, t, tnow, tasks, fh, err, deleted>>
  /\ UNCHANGED faults

\* e.cron.Start(); then e.Reload()
StartCron(th) ==
  /\ pc[th] = "Start"
  /\ running' = TRUE
  /\ pc' = Set(pc, th, "Lock")
  /\ Did(th, <<"cron.Start">>)
  /\ UNCHANGED <<resp, histVars, storeVars, cronVars, mu, now, fsVars, serving, goPurge, ops,
                 op, reqVars, t, tnow, tasks, fh, err, deleted>>
  /\ UNCHANGED faults

\* Engine.StartLogJanitor, and Start's return into http.ListenAndServe
StartLogJanitor(th) ==
  /\ pc[th] = "StartLogJanitor"
  /\ cron' = Put(cron, nextEntry + 1, JanitorJob)
  /\ nextEntry' = nextEntry + 1
  /\ goPurge' = TRUE
  /\ serving' = TRUE
  /\ pc' = Set(pc, th, "idle")
  /\ op' = Set(op, th, "none")
  /\ tasks' = Set(tasks, th, EmptyFn)
  /\ did' = Set(did, th, <<>>)
  /\ UNCHANGED <<resp, histVars, storeVars, entries, running, mu, now, fsVars, ops,
                 reqVars, t, tnow, fh, err, deleted>>
  /\ UNCHANGED faults

\* a store or file-system call returns an error: at most MaxFaults of them do
Failing == faults < MaxFaults /\ faults' = faults + 1

\* ------------------------------------------------------------ Engine.Reload
\* a Reload() that keeps the registry until it has read the task list
ReloadLock_NoClear(th) ==
  /\ pc[th] = "Lock"
  /\ CanLock(th)
  /\ mu' = th
  /\ cron' = cron
  /\ entries' = entries
  /\ pc' = Set(pc, th, "GetTasks")
  /\ Did(th, <<"Lock">>)
  /\ UNCHANGED <<resp, histVars, storeVars, nextEntry, running, now, fsVars, serving, goPurge,
                 ops, op, reqVars, t, tnow, tasks, fh, err, deleted>>
  /\ UNCHANGED faults

\* e.mu.Lock(); cron.Remove of every entry; e.entries = make(map)
ReloadLock(th) ==
  /\ pc[th] = "Lock"
  /\ CanLock(th)
  /\ mu' = th
  /\ cron' = RemoveAll(cron, entries)
  /\ entries' = EmptyFn
  /\ pc' = Set(pc, th, "GetTasks")
  /\ Did(th, <<"Lock">>)
  /\ UNCHANGED <<resp, histVars, storeVars, nextEntry, running, now, fsVars, serving, goPurge,
                 ops, op, reqVars, t, tnow, tasks, fh, err, deleted>>
  /\ UNCHANGED faults

\* tasks, err := e.store.GetTasks() with err == nil
ReloadGetTasks(th) ==
  /\ pc[th] = "GetTasks"
  /\ tasks' = Set(tasks, th, GetTasks(store))
  /\ pc' = Set(pc, th, "Rebuild")
  /\ Did(th, <<"GetTasks">>)
  /\ UNCHANGED <<resp, histVars, storeVars, cronVars, running, mu, now, fsVars, serving,
                 goPurge, ops, op, reqVars, t, tnow, fh, err, deleted>>
  /\ UNCHANGED faults

\* a runTask that reports deleted = false after consuming a one-shot task
Consumed_Never(th) == FALSE

\* what runTask returns after the Reload() of a consumed one-shot task
Consumed(th) == op[th] \in RunOps

\* the loop over tasks, then the deferred e.mu.Unlock() and the return
ReloadRebuild(th) ==
  /\ pc[th] = "Rebuild"
  /\ LET st == addTasks(DOMAIN tasks[th], tasks[th],
                        [entries |-> entries, cron |-> cron, nextEntry |-> nextEntry])
     IN /\ entries' = st.entries
        /\ cron' = st.cron
        /\ nextEntry' = st.nextEntry
  /\ mu' = Unlock(th)
  /\ pc' = Set(pc, th, AfterReload(th))
  /\ deleted' = Set(deleted, th, Consumed(th))
  /\ consumed' = IF Consumed(th) THEN consumed \cup {t[th].id} ELSE consumed
  /\ last' = [n |-> last.n + 1, ok |-> TRUE, same |-> last.ok /\ tasks[th] = last.snap,
             snap |-> tasks[th], reg |-> entries']
  /\ UNCHANGED resp
  /\ Did(th, <<"Unlock">>)
  /\ UNCHANGED <<storeVars, running, now, fsVars, serving, goPurge, ops, op,
                 reqVars, t, tnow, tasks, fh, err>>
  /\ UNCHANGED faults

\* a Reload() that returns from a failed read without unlocking
ReloadGetTasksFail_KeepsLock(th) ==
  /\ pc[th] = "GetTasks"
  /\ mu' = mu
  /\ pc' = Set(pc, th, AfterReload(th))
  /\ deleted' = Set(deleted, th, Consumed(th))
  /\ consumed' = IF Consumed(th) THEN consumed \cup {t[th].id} ELSE consumed
  /\ last' = [n |-> last.n + 1, ok |-> FALSE, same |-> FALSE, snap |-> EmptyFn,
             reg |-> entries]
  /\ UNCHANGED resp
  /\ Did(th, <<"GetTasks failed", "Unlock">>)
  /\ UNCHANGED <<storeVars, cronVars, running, now, fsVars, serving, goPurge,
                 ops, op, reqVars, t, tnow, tasks, fh, err>>
  /\ Failing

\* GetTasks returns an error: log it, unlock, return
ReloadGetTasksFail(th) ==
  /\ pc[th] = "GetTasks"
  /\ mu' = Unlock(th)
  /\ pc' = Set(pc, th, AfterReload(th))
  /\ deleted' = Set(deleted, th, Consumed(th))
  /\ consumed' = IF Consumed(th) THEN consumed \cup {t[th].id} ELSE consumed
  /\ last' = [n |-> last.n + 1, ok |-> FALSE, same |-> FALSE, snap |-> EmptyFn,
             reg |-> entries]
  /\ UNCHANGED resp
  /\ Did(th, <<"GetTasks failed", "Unlock">>)
  /\ UNCHANGED <<storeVars, cronVars, running, now, fsVars, serving, goPurge,
                 ops, op, reqVars, t, tnow, tasks, fh, err>>
  /\ Failing

\* ----------------------------------------------------------- Engine.runTask
\* e.store.UpdateLastRun(t.ID, now) with err == nil; now was read on entry
UpdateLastRun(th) ==
  /\ pc[th] = "UpdateLastRun"
  /\ tnow' = tnow
  /\ store' = StoreUpdateLastRun(store, t[th].id, tnow[th])
  /\ pc' = Set(pc, th, "OpenLog")
  /\ Did(th, <<"UpdateLastRun">>)
  /\ UNCHANGED <<resp, histVars, nextId, cronVars, running, mu, now, fsVars, serving, goPurge,
                 ops, op, reqVars, t, tasks, fh, err, deleted>>
  /\ UNCHANGED faults

\* a runTask that returns the error of UpdateLastRun
UpdateLastRunFail_Aborts(th) ==
  /\ pc[th] = "UpdateLastRun"
  /\ tnow' = tnow
  /\ err' = Set(err, th, "store error")
  /\ pc' = Set(pc, th, "ret")
  /\ Did(th, <<"UpdateLastRun failed">>)
  /\ UNCHANGED <<resp, histVars, storeVars, cronVars, running, mu, now, fsVars, serving,
                 goPurge, ops, op, reqVars, t, tasks, fh, deleted>>
  /\ Failing

\* UpdateLastRun returns an error: it is logged and the run goes on
UpdateLastRunFail(th) ==
  /\ pc[th] = "UpdateLastRun"
  /\ tnow' = tnow
  /\ pc' = Set(pc, th, "OpenLog")
  /\ Did(th, <<"UpdateLastRun failed">>)
  /\ UNCHANGED <<resp, histVars, storeVars, cronVars, running, mu, now, fsVars, serving,
                 goPurge, ops, op, reqVars, t, tasks, fh, err, deleted>>
  /\ Failing

\* a runTask without the empty-command check
EmptyCommand_Never(task) == FALSE

\* the command is empty: if t.Command == ""
EmptyCommand(task) == task.command = ""

\* a runTask that waits while another run of the same task executes
OpenLog_Exclusive(th) ==
  /\ pc[th] = "OpenLog"
  /\ \A x \in Threads \ {th} : ~(pc[x] = "cmdRun" /\ t[x].id = t[th].id)
  /\ LET name == DailyName(t[th].id, Day(tnow[th]))
         opened == OpenFile(files, name, now)
     IN /\ dirExists' = TRUE
        /\ IF EmptyCommand(t[th])
           THEN /\ files' = Write(opened, name, <<"started", "failed: empty command">>, now)
                /\ fh' = Set(fh, th, NoFile)
                /\ err' = Set(err, th, "empty command")
                /\ pc' = Set(pc, th, "ret")
                /\ Did(th, <<"OpenFile", "started", "failed: empty command">>)
           ELSE /\ files' = Write(opened, name, <<"started">>, now)
                /\ fh' = Set(fh, th, name)
                /\ err' = err
                /\ pc' = Set(pc, th, "cmdRun")
                /\ Did(th, <<"OpenFile", "started", "exec">>)
  /\ UNCHANGED <<resp, histVars, storeVars, cronVars, running, mu, now, serving, goPurge, ops,
                 op, reqVars, t, tnow, tasks, deleted>>
  /\ UNCHANGED faults

\* os.MkdirAll, os.OpenFile, the "started" marker, then the empty-command exit
\* or the start of the shell by cmd.Run()
OpenLog(th) ==
  /\ pc[th] = "OpenLog"
  /\ LET name == DailyName(t[th].id, Day(tnow[th]))
         opened == OpenFile(files, name, now)
     IN /\ dirExists' = TRUE
        /\ IF EmptyCommand(t[th])
           THEN /\ files' = Write(opened, name, <<"started", "failed: empty command">>, now)
                /\ fh' = Set(fh, th, NoFile)
                /\ err' = Set(err, th, "empty command")
                /\ pc' = Set(pc, th, "ret")
                /\ Did(th, <<"OpenFile", "started", "failed: empty command">>)
           ELSE /\ files' = Write(opened, name, <<"started">>, now)
                /\ fh' = Set(fh, th, name)
                /\ err' = err
                /\ pc' = Set(pc, th, "cmdRun")
                /\ Did(th, <<"OpenFile", "started", "exec">>)
  /\ UNCHANGED <<resp, histVars, storeVars, cronVars, running, mu, now, serving, goPurge, ops,
                 op, reqVars, t, tnow, tasks, deleted>>
  /\ UNCHANGED faults

\* a runTask that starts the command although the log file could not be opened
OpenLogFail_RunsAnyway(th) ==
  /\ pc[th] = "OpenLog"
  /\ err' = Set(err, th, "failed to open log file")
  /\ pc' = Set(pc, th, "cmdRun")
  /\ Did(th, <<"OpenFile failed", "exec">>)
  /\ UNCHANGED <<resp, histVars, storeVars, cronVars, running, mu, now, fsVars, serving,
                 goPurge, ops, op, reqVars, t, tnow, tasks, fh, deleted>>
  /\ Failing

\* MkdirAll or OpenFile returns an error: the run is aborted
OpenLogFail(th) ==
  /\ pc[th] = "OpenLog"
  /\ err' = Set(err, th, "failed to open log file")
  /\ pc' = Set(pc, th, "ret")
  /\ Did(th, <<"OpenFile failed">>)
  /\ UNCHANGED <<resp, histVars, storeVars, cronVars, running, mu, now, fsVars, serving,
                 goPurge, ops, op, reqVars, t, tnow, tasks, fh, deleted>>
  /\ Failing

\* cmd.Run() fails to start the shell
ExecFail(th) ==
  /\ pc[th] = "OpenLog"
  /\ ~EmptyCommand(t[th])
  /\ LET name == DailyName(t[th].id, Day(tnow[th])) IN
       files' = Write(OpenFile(files, name, now), name,
                      <<"started", "failed: launch">>, now)
  /\ dirExists' = TRUE
  /\ err' = Set(err, th, "launch failure")
  /\ pc' = Set(pc, th, "ret")
  /\ Did(th, <<"OpenFile", "started", "exec failed", "failed: launch">>)
  /\ UNCHANGED <<resp, histVars, storeVars, cronVars, running, mu, now, serving,
                 goPurge, ops, op, reqVars, t, tnow, tasks, fh, deleted>>
  /\ Failing

\* the statement after a successful command: if t.OneShot
AfterSuccess(task) == IF task.one_shot THEN "DeleteTask" ELSE "ret"

\* a run that writes no marker after a successful command
CmdSucceed_NoMarker(th) ==
  /\ pc[th] = "cmdRun"
  /\ files' = Write(files, fh[th], <<"hi">>, now)
  /\ pc' = Set(pc, th, AfterSuccess(t[th]))
  /\ fh' = IF AfterSuccess(t[th]) = "ret" THEN Set(fh, th, NoFile) ELSE fh
  /\ Did(th, <<"exit 0">>)
  /\ UNCHANGED <<resp, histVars, storeVars, cronVars, running, mu, now, dirExists, serving,
                 goPurge, ops, op, reqVars, t, tnow, tasks, err, deleted>>
  /\ UNCHANGED faults

\* cmd.Run() returns nil: the "finished successfully" marker
CmdSucceed(th) ==
  /\ pc[th] = "cmdRun"
  /\ files' = Write(files, fh[th], <<"hi", "finished successfully">>, now)
  /\ pc' = Set(pc, th, AfterSuccess(t[th]))
  /\ fh' = IF AfterSuccess(t[th]) = "ret" THEN Set(fh, th, NoFile) ELSE fh
  /\ Did(th, <<"exit 0", "finished successfully">>)
  /\ UNCHANGED <<resp, histVars, storeVars, cronVars, running, mu, now, dirExists, serving,
                 goPurge, ops, op, reqVars, t, tnow, tasks, err, deleted>>
  /\ UNCHANGED faults

\* a runTask that goes on to the one-shot deletion after a failed command
AfterFailure_FallThrough(task) == AfterSuccess(task)

\* a runTask that starts over after a failed command
AfterFailure_Retry(task) == "OpenLog"

\* the statement after a failed command: return false, err
AfterFailure(task) == "ret"

\* a run that logs the failed command but returns no error
CmdFail_Swallowed(th) ==
  /\ pc[th] = "cmdRun"
  /\ files' = Write(files, fh[th], <<"failed: exit status 1">>, now)
  /\ pc' = Set(pc, th, AfterFailure(t[th]))
  /\ fh' = IF AfterFailure(t[th]) = "ret" THEN Set(fh, th, NoFile) ELSE fh
  /\ err' = err
  /\ Did(th, <<"exit 1", "failed: exit status 1">>)
  /\ UNCHANGED <<resp, histVars, storeVars, cronVars, running, mu, now, dirExists, serving,
                 goPurge, ops, op, reqVars, t, tnow, tasks, deleted>>
  /\ UNCHANGED faults

\* cmd.Run() returns a non-zero exit: the "failed" marker
CmdFail(th) ==
  /\ pc[th] = "cmdRun"
  /\ files' = Write(files, fh[th], <<"failed: exit status 1">>, now)
  /\ pc' = Set(pc, th, AfterFailure(t[th]))
  /\ fh' = IF AfterFailure(t[th]) = "ret" THEN Set(fh, th, NoFile) ELSE fh
  /\ err' = Set(err, th, "exit status 1")
  /\ Did(th, <<"exit 1", "failed: exit status 1">>)
  /\ UNCHANGED <<resp, histVars, storeVars, cronVars, running, mu, now, dirExists, serving,
                 goPurge, ops, op, reqVars, t, tnow, tasks, deleted>>
  /\ UNCHANGED faults

\* e.store.DeleteTask(t.ID) of a one-shot task, its marker, then e.Reload()
RunDeleteTask(th) ==
  /\ pc[th] = "DeleteTask"
  /\ op[th] \in RunOps
  /\ store' = StoreDeleteTask(store, t[th].id)
  /\ files' = Write(files, fh[th], <<"one-shot task deleted">>, now)
  /\ fh' = Set(fh, th, NoFile)
  /\ pc' = Set(pc, th, "Lock")
  /\ Did(th, <<"DeleteTask", "one-shot task deleted">>)
  /\ UNCHANGED <<resp, histVars, nextId, cronVars, running, mu, now, dirExists, serving,
                 goPurge, ops, op, reqVars, t, tnow, tasks, err, deleted>>
  /\ UNCHANGED faults

\* DeleteTask returns an error: its marker, and the error is returned
RunDeleteTaskFail(th) ==
  /\ pc[th] = "DeleteTask"
  /\ op[th] \in RunOps
  /\ files' = Write(files, fh[th], <<"failed to delete one-shot task">>, now)
  /\ fh' = Set(fh, th, NoFile)
  /\ err' = Set(err, th, "failed to delete one-shot task")
  /\ pc' = Set(pc, th, "ret")
  /\ Did(th, <<"DeleteTask failed", "failed to delete one-shot task">>)
  /\ UNCHANGED <<resp, histVars, storeVars, cronVars, running, mu, now, dirExists, serving,
                 goPurge, ops, op, reqVars, t, tnow, tasks, deleted>>
  /\ Failing

\* ------------------------------------------------------- the schedule fires
\* the schedule engine calls the job of a live entry on a goroutine of its own
Fire(th, eid) ==
  /\ running
  /\ Free(th)
  /\ ops < MaxOps
  /\ eid \in DOMAIN cron
  /\ ops' = ops + 1
  /\ IF cron[eid].kind = "task"
     THEN /\ op' = Set(op, th, "Fire")
          /\ t' = Set(t, th, cron[eid].t)
          /\ tnow' = Set(tnow, th, now)
          /\ pc' = Set(pc, th, "UpdateLastRun")
     ELSE /\ op' = Set(op, th, "Purge")
          /\ t' = t
          /\ tnow' = tnow
          /\ pc' = Set(pc, th, "PurgeOldLogs")
  /\ UNCHANGED <<resp, histVars, storeVars, cronVars, running, mu, now, fsVars, serving,
                 goPurge, reqVars, tasks, fh, err, deleted, did>>
  /\ UNCHANGED faults

\* -------------------------------------------------------- Engine.RunTaskNow
\* POST /api/tasks/ID/run and the run_task tool: api.Engine.RunTaskNow(id)
BeginRunTaskNow(th, id) ==
  /\ serving
  /\ Free(th)
  /\ ops < MaxOps
  /\ ops' = ops + 1
  /\ op' = Set(op, th, "RunNow")
  /\ taskID' = Set(taskID, th, id)
  /\ pc' = Set(pc, th, "GetTaskByID")
  /\ UNCHANGED <<resp, histVars, storeVars, cronVars, running, mu, now, fsVars, serving,
                 goPurge, req, t, tnow, tasks, fh, err, deleted, did>>
  /\ UNCHANGED faults

\* ------------------------------------------------------------ request layer
\* POST /api/tasks
BeginCreate(th, in) ==
  /\ serving
  /\ Free(th)
  /\ ops < MaxOps
  /\ nextId <= MaxId
  /\ ops' = ops + 1
  /\ op' = Set(op, th, "Create")
  /\ t' = Set(t, th, in)
  /\ pc' = Set(pc, th, "CreateTask")
  /\ UNCHANGED <<resp, histVars, storeVars, cronVars, running, mu, now, fsVars, serving,
                 goPurge, reqVars, tnow, tasks, fh, err, deleted, did>>
  /\ UNCHANGED faults

\* api.Store.CreateTask(&t), then api.Engine.Reload()
CreateTask(th) ==
  /\ pc[th] = "CreateTask"
  /\ store' = StoreCreateTask(store, nextId, t[th], now)
  /\ nextId' = nextId + 1
  /\ t' = Set(t, th, store'[nextId])
  /\ pc' = Set(pc, th, "Lock")
  /\ Did(th, <<"CreateTask">>)
  /\ UNCHANGED <<resp, histVars, cronVars, running, mu, now, fsVars, serving, goPurge, ops, op,
                 reqVars, tnow, tasks, fh, err, deleted>>
  /\ UNCHANGED faults

\* CreateTask returns an error: 500, no Reload
CreateTaskFail(th) ==
  /\ pc[th] = "CreateTask"
  /\ err' = Set(err, th, "store error")
  /\ pc' = Set(pc, th, "ret")
  /\ Did(th, <<"CreateTask failed">>)
  /\ UNCHANGED <<resp, histVars, storeVars, cronVars, running, mu, now, fsVars, serving,
                 goPurge, ops, op, reqVars, t, tnow, tasks, fh, deleted>>
  /\ Failing

\* PUT/PATCH /api/tasks/ID and the update_task tool
BeginUpdate(th, id, u) ==
  /\ serving
  /\ Free(th)
  /\ ops < MaxOps
  /\ ops' = ops + 1
  /\ op' = Set(op, th, "Update")
  /\ taskID' = Set(taskID, th, id)
  /\ req' = Set(req, th, u)
  /\ pc' = Set(pc, th, "GetTaskByID")
  /\ UNCHANGED <<resp, histVars, storeVars, cronVars, running, mu, now, fsVars, serving,
                 goPurge, t, tnow, tasks, fh, err, deleted, did>>
  /\ UNCHANGED faults

\* a RunTaskNow that runs only tasks the registry holds
AfterFound_OnlyRegistered(th) ==
  CASE op[th] = "RunNow" /\ taskID[th] \in DOMAIN entries -> "UpdateLastRun"
    [] op[th] = "RunNow" -> "ret"
    [] op[th] = "Update" /\ isEmpty(req[th]) -> "ret"
    [] OTHER -> "UpdateTask"

\* the statement after a GetTaskByID that found the row
AfterFound(th) ==
  CASE op[th] = "RunNow" -> "UpdateLastRun"
    [] op[th] = "Update" /\ isEmpty(req[th]) -> "ret"
    [] OTHER -> "UpdateTask"

\* GetTaskByID(id) in RunTaskNow and in the update handlers, with what follows
\* it up to the next store call
GetTaskByIDStep(th) ==
  /\ pc[th] = "GetTaskByID"
  /\ LET r == GetTaskByID(store, taskID[th]) IN
       IF r.err = "ErrNoRows"
       THEN /\ err' = Set(err, th, "not found")
            /\ t' = t
            /\ tnow' = tnow
            /\ pc' = Set(pc, th, "ret")
       ELSE /\ err' = Set(err, th, IF AfterFound(th) = "ret"
                                    THEN "no fields to update" ELSE "nil")
            /\ t' = Set(t, th, IF op[th] = "Update"
                               THEN applyTaskUpdate(r.t, req[th]) ELSE r.t)
            /\ tnow' = Set(tnow, th, IF op[th] = "RunNow" THEN now ELSE 0)
            /\ pc' = Set(pc, th, AfterFound(th))
  /\ Did(th, <<"GetTaskByID">>)
  /\ UNCHANGED <<resp, histVars, storeVars, cronVars, running, mu, now, fsVars, serving,
                 goPurge, ops, op, reqVars, tasks, fh, deleted>>
  /\ UNCHANGED faults

\* GetTaskByID returns an error other than sql.ErrNoRows
GetTaskByIDFail(th) ==
  /\ pc[th] = "GetTaskByID"
  /\ err' = Set(err, th, "store error")
  /\ pc' = Set(pc, th, "ret")
  /\ Did(th, <<"GetTaskByID failed">>)
  /\ UNCHANGED <<resp, histVars, storeVars, cronVars, running, mu, now, fsVars, serving,
                 goPurge, ops, op, reqVars, t, tnow, tasks, fh, deleted>>
  /\ Failing

\* api.Store.UpdateTask(existing), then api.Engine.Reload()
UpdateTask(th) ==
  /\ pc[th] = "UpdateTask"
  /\ store' = StoreUpdateTask(store, t[th])
  /\ pc' = Set(pc, th, "Lock")
  /\ Did(th, <<"UpdateTask">>)
  /\ UNCHANGED <<resp, histVars, nextId, cronVars, running, mu, now, fsVars, serving, goPurge,
                 ops, op, reqVars, t, tnow, tasks, fh, err, deleted>>
  /\ UNCHANGED faults

\* UpdateTask returns an error: 500, no Reload
UpdateTaskFail(th) ==
  /\ pc[th] = "UpdateTask"
  /\ err' = Set(err, th, "store error")
  /\ pc' = Set(pc, th, "ret")
  /\ Did(th, <<"UpdateTask failed">>)
  /\ UNCHANGED <<resp, histVars, storeVars, cronVars, running, mu, now, fsVars, serving,
                 goPurge, ops, op, reqVars, t, tnow, tasks, fh, deleted>>
  /\ Failing

\* DELETE /api/tasks/ID
BeginDelete(th, id) ==
  /\ serving
  /\ Free(th)
  /\ ops < MaxOps
  /\ ops' = ops + 1
  /\ op' = Set(op, th, "Delete")
  /\ taskID' = Set(taskID, th, id)
  /\ pc' = Set(pc, th, "DeleteTask")
  /\ UNCHANGED <<resp, histVars, storeVars, cronVars, running, mu, now, fsVars, serving,
                 goPurge, req, t, tnow, tasks, fh, err, deleted, did>>
  /\ UNCHANGED faults

\* a delete handler that does not reload
DeleteTask_NoReload(th) ==
  /\ pc[th] = "DeleteTask"
  /\ op[th] = "Delete"
  /\ store' = StoreDeleteTask(store, taskID[th])
  /\ pc' = Set(pc, th, "ret")
  /\ Did(th, <<"DeleteTask">>)
  /\ UNCHANGED <<resp, histVars, nextId, cronVars, running, mu, now, fsVars, serving, goPurge,
                 ops, op, reqVars, t, tnow, tasks, fh, err, deleted>>
  /\ UNCHANGED faults

\* api.Store.DeleteTask(id), then api.Engine.Reload()
DeleteTask(th) ==
  /\ pc[th] = "DeleteTask"
  /\ op[th] = "Delete"
  /\ store' = StoreDeleteTask(store, taskID[th])
  /\ pc' = Set(pc, th, "Lock")
  /\ Did(th, <<"DeleteTask">>)
  /\ UNCHANGED <<resp, histVars, nextId, cronVars, running, mu, now, fsVars, serving, goPurge,
                 ops, op, reqVars, t, tnow, tasks, fh, err, deleted>>
  /\ UNCHANGED faults

\* DeleteTask returns an error: 500, no Reload
DeleteTaskFail(th) ==
  /\ pc[th] = "DeleteTask"
  /\ op[th] = "Delete"
  /\ err' = Set(err, th, "store error")
  /\ pc' = Set(pc, th, "ret")
  /\ Did(th, <<"DeleteTask failed">>)
  /\ UNCHANGED <<resp, histVars, storeVars, cronVars, running, mu, now, fsVars, serving,
                 goPurge, ops, op, reqVars, t, tnow, tasks, fh, deleted>>
  /\ Failing

\* handleTasks, POST .../run: the HTTP status for RunTaskNow's error
RunStatus(e) ==
  CASE e = "nil" -> 204
    [] e = "not found" -> 404
    [] OTHER -> 500

\* the operation returns to its caller, and the goroutine is free again
Return(th) ==
  /\ pc[th] = "ret"
  /\ pc' = Set(pc, th, "idle")
  /\ op' = Set(op, th, "none")
  /\ taskID' = Set(taskID, th, 0)
  /\ req' = Set(req, th, EmptyFn)
  /\ t' = Set(t, th, ZeroTask)
  /\ tnow' = Set(tnow, th, 0)
  /\ tasks' = Set(tasks, th, EmptyFn)
  /\ err' = Set(err, th, "nil")
  /\ deleted' = Set(deleted, th, FALSE)
  /\ did' = Set(did, th, <<>>)
  /\ resp' = Set(resp, th, <<>>)
  /\ UNCHANGED <<histVars, storeVars, cronVars, running, mu, now, fsVars, serving,
                 goPurge, ops, fh>>
  /\ UNCHANGED faults

\* ------------------------------------------------------------ Log Janitor
\* the goroutine of "go e.PurgeOldLogs()" starts
GoPurge(th) ==
  /\ goPurge
  /\ Free(th)
  /\ goPurge' = FALSE
  /\ op' = Set(op, th, "Purge")
  /\ pc' = Set(pc, th, "PurgeOldLogs")
  /\ UNCHANGED <<resp, histVars, storeVars, cronVars, running, mu, now, fsVars, serving, ops,
                 reqVars, t, tnow, tasks, fh, err, deleted, did>>
  /\ UNCHANGED faults

\* a pass that walks into the subdirectories
PurgeOldLogs_Recursive(th) ==
  /\ pc[th] = "PurgeOldLogs"
  /\ LET gone == IF dirExists THEN Purged(files, now) ELSE {} IN
       /\ files' = [n \in DOMAIN files \ gone |->
                      [files[n] EXCEPT !.inside =
                         Drop(@, Purged(files[n].inside, now))]]
       /\ fh' = [x \in Threads |-> IF fh[x] \in gone THEN Unlinked ELSE fh[x]]
  /\ pc' = Set(pc, th, "idle")
  /\ op' = Set(op, th, "none")
  /\ UNCHANGED <<resp, histVars, storeVars, cronVars, running, mu, now, dirExists, serving,
                 goPurge, ops, reqVars, t, tnow, tasks, err, deleted, did>>
  /\ UNCHANGED faults

\* a pass that waits for the registry lock
PurgeOldLogs_Locked(th) ==
  /\ pc[th] = "PurgeOldLogs"
  /\ CanLock(th)
  /\ LET gone == IF dirExists THEN Purged(files, now) ELSE {} IN
       /\ files' = Drop(files, gone)
       /\ fh' = [x \in Threads |-> IF fh[x] \in gone THEN Unlinked ELSE fh[x]]
  /\ pc' = Set(pc, th, "idle")
  /\ op' = Set(op, th, "none")
  /\ UNCHANGED <<resp, histVars, storeVars, cronVars, running, mu, now, dirExists, serving,
                 goPurge, ops, reqVars, t, tnow, tasks, err, deleted, did>>
  /\ UNCHANGED faults

\* Engine.PurgeOldLogs: one pass over the log directory
PurgeOldLogs(th) ==
  /\ pc[th] = "PurgeOldLogs"
  /\ LET gone == IF dirExists THEN Purged(files, now) ELSE {} IN
       /\ files' = Drop(files, gone)
       /\ fh' = [x \in Threads |-> IF fh[x] \in gone THEN Unlinked ELSE fh[x]]
  /\ pc' = Set(pc, th, "idle")
  /\ op' = Set(op, th, "none")
  /\ UNCHANGED <<resp, histVars, storeVars, cronVars, running, mu, now, dirExists, serving,
                 goPurge, ops, reqVars, t, tnow, tasks, err, deleted, did>>
  /\ UNCHANGED faults

\* os.ReadDir returns an error other than "does not exist": logged, nothing purged
PurgeReadDirFail(th) ==
  /\ pc[th] = "PurgeOldLogs"
  /\ dirExists
  /\ pc' = Set(pc, th, "idle")
  /\ op' = Set(op, th, "none")
  /\ UNCHANGED <<resp, histVars, storeVars, cronVars, running, mu, now, fsVars, serving,
                 goPurge, ops, reqVars, t, tnow, tasks, fh, err, deleted, did>>
  /\ Failing

\* ------------------------------------------------- GET /api/tasks/ID/logs
\* file names as text: one code per character ('.' 46, '0'..'9' 48..57,
\* '_' 95), with 116 for the word "task" and 108 for the extension "log"
RECURSIVE Digits(_)
Digits(n) == IF n < 10 THEN <<48 + n>> ELSE Digits(n \div 10) \o <<48 + (n % 10)>>

\* now.Format("20060102"): a date of fixed width
DayText(day) == <<48 + (day \div 10), 48 + (day % 10)>>

\* fmt.Sprintf("task_%d.log", id) and fmt.Sprintf("task_%d_%s.log", id, date)
FileText(name) ==
  CASE Len(name) = 2 -> <<116, 95>> \o Digits(name[2]) \o <<46, 108>>
    [] Len(name) = 3 ->
         <<116, 95>> \o Digits(name[2]) \o <<95>> \o DayText(name[3]) \o <<46, 108>>
    [] OTHER -> <<97>>

\* a pattern "task_%d*.log", which also matches the files of task 10 for id 1
DailyPattern_NoSeparator(id) ==
  [prefix |-> <<116, 95>> \o Digits(id), suffix |-> <<46, 108>>]

\* fmt.Sprintf("task_%d_*.log", id): the text before and after the '*'
DailyPattern(id) ==
  [prefix |-> <<116, 95>> \o Digits(id) \o <<95>>, suffix |-> <<46, 108>>]

\* filepath.Match of a pattern with one '*'
Match(p, text) ==
  /\ Len(text) >= Len(p.prefix) + Len(p.suffix)
  /\ SubSeq(text, 1, Len(p.prefix)) = p.prefix
  /\ SubSeq(text, Len(text) - Len(p.suffix) + 1, Len(text)) = p.suffix

\* the order of sort.Strings: a is before b
TextLess(a, b) ==
  \E k \in 1..(Len(a) + 1) :
    /\ k <= Len(b)
    /\ \A j \in 1..(k - 1) : a[j] = b[j]
    /\ k = Len(a) + 1 \/ a[k] < b[k]

\* the names of S in the order of their text
RECURSIVE SortNames(_)
SortNames(S) ==
  IF S = {} THEN <<>>
  ELSE LET n == CHOOSE x \in S : \A y \in S \ {x} : TextLess(FileText(x), FileText(y))
       IN <<n>> \o SortNames(S \ {n})

\* filepath.Glob(dailyPattern): the matching names, sorted
Glob(fs, id) ==
  SortNames({n \in DOMAIN fs : Match(DailyPattern(id), FileText(n))})

\* os.ReadFile of each match in turn; one that cannot be read is skipped
RECURSIVE ReadAll(_, _)
ReadAll(fs, names) ==
  IF names = <<>> THEN <<>>
  ELSE (IF fs[Head(names)].isDir THEN <<>> ELSE fs[Head(names)].lines)
       \o ReadAll(fs, Tail(names))

\* the body of the response to GET /api/tasks/ID/logs
ReadLogs(fs, id) ==
  LET daily == Glob(fs, id)
      matches == IF LegacyName(id) \in DOMAIN fs
                 THEN <<LegacyName(id)>> \o daily ELSE daily
  IN IF Len(matches) = 0
     THEN <<"No logs found for this task.">>
     ELSE ReadAll(fs, matches)

\* the task ids and the days of the log files
LogIds == {1, 2, 10}
LogDays == {2, 10}

\* the log files a data directory may hold, each with a line of its own
LogFiles ==
  (LegacyName(1) :> File(1, <<"task 1 legacy">>)) @@
  (DailyName(1, 2) :> File(1, <<"task 1 day 02">>)) @@
  (DailyName(1, 10) :> File(1, <<"task 1 day 10">>)) @@
  (LegacyName(10) :> File(1, <<"task 10 legacy">>)) @@
  (DailyName(10, 2) :> File(1, <<"task 10 day 02">>)) @@
  (DailyName(2, 10) :> Dir(1, EmptyFn))

\* a server that has started on an empty store, next to a log directory left
\* by earlier tasks
LogsInit ==
  /\ store = EmptyFn
  /\ nextId = 11
  /\ entries = EmptyFn
  /\ cron = (1 :> JanitorJob)
  /\ nextEntry = 1
  /\ running = TRUE
  /\ mu = NoThread
  /\ now = 1
  /\ dirExists = TRUE
  /\ files \in {[n \in S |-> LogFiles[n]] : S \in SUBSET DOMAIN LogFiles}
  /\ serving = TRUE
  /\ goPurge = FALSE
  /\ ops = 0
  /\ pc = [th \in Threads |-> "idle"]
  /\ op = [th \in Threads |-> "none"]
  /\ taskID = [th \in Threads |-> 0]
  /\ req = [th \in Threads |-> EmptyFn]
  /\ t = [th \in Threads |-> ZeroTask]
  /\ tnow = [th \in Threads |-> 0]
  /\ tasks = [th \in Threads |-> EmptyFn]
  /\ fh = [th \in Threads |-> NoFile]
  /\ err = [th \in Threads |-> "nil"]
  /\ deleted = [th \in Threads |-> FALSE]
  /\ did = [th \in Threads |-> <<>>]
  /\ consumed = {}
  /\ last = [n |-> 1, ok |-> TRUE, same |-> FALSE, snap |-> EmptyFn, reg |-> EmptyFn]
  /\ faults = 0
  /\ resp = [th \in Threads |-> <<>>]

\* GET /api/tasks/ID/logs arrives
BeginGetLogs(th, id) ==
  /\ serving
  /\ Free(th)
  /\ ops < MaxOps
  /\ ops' = ops + 1
  /\ op' = Set(op, th, "Logs")
  /\ taskID' = Set(taskID, th, id)
  /\ pc' = Set(pc, th, "GetLogs")
  /\ UNCHANGED <<resp, histVars, storeVars, cronVars, running, mu, now, fsVars,
                 serving, goPurge, req, t, tnow, tasks, fh, err, deleted, did>>
  /\ UNCHANGED faults

\* the handler globs, stats, reads and writes the response
GetLogs(th) ==
  /\ pc[th] = "GetLogs"
  /\ resp' = Set(resp, th, ReadLogs(files, taskID[th]))
  /\ pc' = Set(pc, th, "ret")
  /\ Did(th, <<"GetLogs">>)
  /\ UNCHANGED <<histVars, storeVars, cronVars, running, mu, now, fsVars, serving,
                 goPurge, ops, op, reqVars, t, tnow, tasks, fh, err, deleted>>
  /\ UNCHANGED faults

\* ---------------------------------------------------------------- the clock
Tick ==
  /\ now < MaxTime
  /\ now' = now + 1
  /\ UNCHANGED <<storeVars, cronVars, running, mu, dirExists, files, serving,
                 goPurge, ops, pc, op, reqVars, t, tnow, tasks, fh, err,
                 deleted, did, histVars, faults, resp>>

\* ------------------------------------------------------------ specification
\* a step of goroutine th when every store and file-system call succeeds
Step(th) ==
  \/ StartCron(th)
  \/ StartLogJanitor(th)
  \/ ReloadLock(th)
  \/ ReloadGetTasks(th)
  \/ ReloadRebuild(th)
  \/ UpdateLastRun(th)
  \/ OpenLog(th)
  \/ CmdSucceed(th)
  \/ CmdFail(th)
  \/ RunDeleteTask(th)
  \/ \E eid \in DOMAIN cron : Fire(th, eid)
  \/ \E id \in Ids : BeginRunTaskNow(th, id)
  \/ \E in \in CreateInputs : BeginCreate(th, in)
  \/ \E id \in Ids, u \in UpdateInputs : BeginUpdate(th, id, u)
  \/ \E id \in Ids : BeginDelete(th, id)
  \/ CreateTask(th)
  \/ GetTaskByIDStep(th)
  \/ UpdateTask(th)
  \/ DeleteTask(th)
  \/ Return(th)
  \/ GoPurge(th)
  \/ PurgeOldLogs(th)

\* a store or file-system call of goroutine th returns an error
Fault(th) ==
  \/ ReloadGetTasksFail(th)
  \/ UpdateLastRunFail(th)
  \/ OpenLogFail(th)
  \/ ExecFail(th)
  \/ RunDeleteTaskFail(th)
  \/ CreateTaskFail(th)
  \/ GetTaskByIDFail(th)
  \/ UpdateTaskFail(th)
  \/ DeleteTaskFail(th)
  \/ PurgeReadDirFail(th)

Next == Tick \/ \E th \in Threads : Step(th)

NextF == Next \/ \E th \in Threads : Fault(th)

\* the engine with a store and a file system that answer every call
Spec == Init /\ [][Next]_vars

\* the engine with a store and a file system whose calls may fail
FaultSpec == Init /\ [][NextF]_vars

\* the requests that read logs
NextL ==
  \E th \in Threads :
    \/ \E id \in LogIds : BeginGetLogs(th, id)
    \/ GetLogs(th)
    \/ Return(th)

\* the log reader over the log directories of LogsInit
LogsSpec == LogsInit /\ [][NextL]_vars

\* ================================================================== claims
\* the live triggers of tasks in the schedule engine
TaskEntries(c) == {e \in DOMAIN c : c[e].kind = "task"}

\* the registry reg holds exactly one live trigger for each id of want, each
\* running the task definition of snap, and the engine has no other task trigger
OneTriggerEach(reg, c, want, snap) ==
  /\ DOMAIN reg = want
  /\ \A i \in want : reg[i] \in DOMAIN c /\ c[reg[i]] = TaskJob(snap[i])
  /\ \A i, j \in want : reg[i] = reg[j] => i = j
  /\ TaskEntries(c) = Range(reg)

\* goroutine th has returned from a Reload() and nothing else is in progress
ReloadReturnedAlone(th) ==
  /\ pc[th] = "ret"
  /\ "Unlock" \in Range(did[th])
  /\ \A x \in Threads \ {th} : pc[x] = "idle"

\* C1 as stated: after any Reload() has returned, having read the task list,
\* the registry holds exactly one live trigger for every task with
\* enabled = true in the store and none for any other id.
C1_EveryEnabledTask ==
  \A th \in Threads :
    (ReloadReturnedAlone(th) /\ "GetTasks" \in Range(did[th])) =>
      OneTriggerEach(entries, cron, {i \in DOMAIN store : store[i].enabled}, store)

\* goroutine th releases the registry lock in this step, i.e. its Reload() returns
Unlocks(th) == mu = th /\ mu' # th

\* C1 amended: when a Reload() returns, the registry holds exactly one live
\* trigger for every task that was enabled and had a well-formed schedule in
\* the task list this Reload read, each running that definition, and no entry
\* for any other id; when the store read failed, the registry is empty.
C1_ReloadRegistersSnapshot ==
  [][\A th \in Threads :
       Unlocks(th) =>
         IF pc[th] = "Rebuild"
         THEN OneTriggerEach(entries', cron',
                {i \in DOMAIN tasks[th] :
                   tasks[th][i].enabled /\ tasks[th][i].schedule = GoodSchedule},
                tasks[th])
         ELSE entries' = EmptyFn /\ TaskEntries(cron') = {}]_vars

\* C1 witness: a Reload() has returned having read an enabled task, which it
\* registered, and a disabled one, which it did not.
C1_Witness ==
  \E th \in Threads :
    /\ pc[th] = "ret"
    /\ "Unlock" \in Range(did[th])
    /\ \E i, j \in DOMAIN tasks[th] :
         /\ tasks[th][i].enabled /\ i \in DOMAIN entries
         /\ ~tasks[th][j].enabled /\ j \notin DOMAIN entries

\* goroutine th takes this step
Steps(th) == pc'[th] # pc[th]

\* C2: once a run of a one-shot task has succeeded and returned, GetTaskByID
\* on its id fails with not-found, the registry and the schedule engine hold no
\* trigger for it, and a later RunTaskNow on the id returns not-found without
\* running the command.
C2_ConsumedIsGone ==
  [][/\ \A id \in consumed' :
          /\ GetTaskByID(store', id).err = "ErrNoRows"
          /\ id \notin DOMAIN entries'
          /\ \A e \in TaskEntries(cron') : cron'[e].t.id # id
     /\ \A x \in Threads :
          (op[x] = "RunNow" /\ pc[x] = "GetTaskByID" /\ taskID[x] \in consumed
             /\ Steps(x))
          => /\ pc'[x] = "ret"
             /\ err'[x] = "not found"
             /\ did'[x] = <<"GetTaskByID">>]_vars

\* C2 witness: a one-shot task was consumed by a run that returned, and a later
\* RunTaskNow on its id has returned not-found.
C2_Witness ==
  \E x \in Threads :
    /\ op[x] = "RunNow" /\ pc[x] = "ret"
    /\ taskID[x] \in consumed
    /\ err[x] = "not found"

\* the errors of a run that failed before or in the command
RunFailures ==
  {"empty command", "exit status 1", "launch failure", "failed to open log file"}

\* C3: a failed run of a one-shot task (empty command, non-zero exit, launch
\* failure, log-file failure) makes no DeleteTask and no Reload, reports
\* deleted = false, and, when it is the only operation since Start(), leaves
\* the task in the store and its trigger live in the registry.
C3_FailedRunKeepsTask ==
  \A th \in Threads :
    (pc[th] = "ret" /\ op[th] \in RunOps /\ t[th].one_shot
       /\ err[th] \in RunFailures)
    => /\ ~deleted[th]
       /\ "DeleteTask" \notin Range(did[th])
       /\ "Lock" \notin Range(did[th])
       /\ ops = 1 =>
            /\ t[th].id \in DOMAIN store
            /\ op[th] = "Fire" =>
                 /\ t[th].id \in DOMAIN entries
                 /\ entries[t[th].id] \in DOMAIN cron
                 /\ cron[entries[t[th].id]] = TaskJob(t[th])

\* C3 witness: a scheduled run of a one-shot task has failed with a non-zero
\* exit and returned; the task is in the store and its trigger is registered.
C3_Witness ==
  \E th \in Threads :
    /\ pc[th] = "ret" /\ op[th] = "Fire" /\ t[th].one_shot
    /\ err[th] = "exit status 1"
    /\ t[th].id \in DOMAIN store
    /\ t[th].id \in DOMAIN entries

\* goroutine th is in runTask past its UpdateLastRun call
PastUpdateLastRun(th) ==
  /\ op[th] \in RunOps
  /\ \/ pc[th] \in {"OpenLog", "cmdRun", "DeleteTask", "Lock", "GetTasks", "Rebuild"}
     \/ pc[th] = "ret" /\ err[th] # "not found"

\* C4: every run attempt reads its start time on entry and writes it to the
\* store's last_run before it opens the log file or starts the command; after
\* that call, last_run of the task (if it is in the store) is non-zero.
C4_LastRunFirst ==
  [][\A th \in Threads :
       /\ (pc'[th] = "UpdateLastRun" /\ Steps(th)) => tnow'[th] = now
       /\ (pc[th] = "UpdateLastRun" /\ Steps(th)) =>
            /\ tnow[th] # 0
            /\ pc'[th] = "OpenLog"
            /\ "OpenFile" \notin Range(did[th])
            /\ "exec" \notin Range(did[th])
            /\ t[th].id \in DOMAIN store =>
                 store'[t[th].id].last_run = tnow[th]
       /\ (PastUpdateLastRun(th)' /\ t'[th].id \in DOMAIN store') =>
            store'[t'[th].id].last_run # 0]_vars

\* C4 witness: a manual run has failed and returned, and last_run of its task
\* is the run's start time.
C4_Witness ==
  \E th \in Threads :
    /\ pc[th] = "ret" /\ op[th] = "RunNow"
    /\ err[th] = "exit status 1"
    /\ t[th].id \in DOMAIN store
    /\ store[t[th].id].last_run = tnow[th]
    /\ tnow[th] # 0

\* the lines of log file name in directory fs, none when it does not exist
Lines(fs, name) == IF name \in DOMAIN fs THEN fs[name].lines ELSE <<>>

\* C5: a run of a task with an empty command appends the "started" and the
\* "failed: empty command" markers to the day's log, returns the error
\* "empty command", starts no shell, and has set last_run to its start time
\* in its UpdateLastRun call; last_run is non-zero when it returns.
C5_EmptyCommand ==
  [][\A th \in Threads :
       /\ (pc[th] = "UpdateLastRun" /\ Steps(th) /\ t[th].command = ""
             /\ t[th].id \in DOMAIN store)
          => store'[t[th].id].last_run = tnow[th]
       /\ (pc[th] = "OpenLog" /\ Steps(th) /\ t[th].command = "")
          => LET name == DailyName(t[th].id, Day(tnow[th])) IN
               /\ name \in DOMAIN files'
               /\ files'[name].lines =
                    Lines(files, name) \o <<"started", "failed: empty command">>
               /\ pc'[th] = "ret"
               /\ err'[th] = "empty command"
               /\ "exec" \notin Range(did'[th])
               /\ t[th].id \in DOMAIN store => store'[t[th].id].last_run # 0
       /\ pc'[th] = "cmdRun" => t'[th].command # ""]_vars

\* C5 witness: a run of a task with an empty command has returned its error,
\* and last_run is that run's start time.
C5_Witness ==
  \E th \in Threads :
    /\ pc[th] = "ret" /\ op[th] \in RunOps
    /\ t[th].command = "" /\ err[th] = "empty command"
    /\ t[th].id \in DOMAIN store
    /\ store[t[th].id].last_run = tnow[th]

\* C6: RunTaskNow(id) for an id that is not in the store returns the not-found
\* error (HTTP 404), which no other failure returns (a store error gives 500),
\* and changes neither the store, the log files, the registry nor the
\* schedule engine, and runs nothing.
C6_NotFound ==
  [][\A th \in Threads :
       /\ (op[th] = "RunNow" /\ pc[th] = "GetTaskByID" /\ Steps(th)) =>
            /\ (taskID[th] \notin DOMAIN store /\ did'[th] = <<"GetTaskByID">>)
               => /\ err'[th] = "not found"
                  /\ RunStatus(err'[th]) = 404
                  /\ pc'[th] = "ret"
            /\ err'[th] = "not found" => taskID[th] \notin DOMAIN store
            /\ did'[th] # <<"GetTaskByID">> =>
                 /\ err'[th] # "not found"
                 /\ RunStatus(err'[th]) = 500
       /\ (op[th] = "RunNow" /\ Steps(th)
             /\ (err'[th] = "not found" \/ err[th] = "not found")) =>
            /\ UNCHANGED <<store, nextId, dirExists, files, entries, cron, nextEntry>>
            /\ "exec" \notin Range(did'[th])
            /\ "UpdateLastRun" \notin Range(did'[th])]_vars

\* C6 witness: RunTaskNow on an id that is not in the store, while another
\* task is, has returned not-found.
C6_Witness ==
  \E th \in Threads :
    /\ pc[th] = "ret" /\ op[th] = "RunNow"
    /\ err[th] = "not found"
    /\ taskID[th] \notin DOMAIN store
    /\ store # EmptyFn

\* C7: a janitor pass that reads the log directory removes every regular file
\* whose modification time is strictly before now - retention, and leaves
\* every other entry as it was: files modified at or after the cutoff, a file
\* exactly at the cutoff among them, and subdirectories.
C7_PurgeStrictlyOlder ==
  [][\A th \in Threads :
       (pc[th] = "PurgeOldLogs" /\ Steps(th) /\ dirExists) =>
         \A n \in DOMAIN files :
           IF ~files[n].isDir /\ files[n].mtime < now - LogRetention
           THEN n \notin DOMAIN files'
           ELSE n \in DOMAIN files' /\ files'[n] = files[n]]_vars

\* C7 witness: a pass has removed the legacy log (modified at 0, cutoff 1)
\* and kept a log last written exactly at the cutoff.
C7_Witness ==
  /\ now = LogRetention + 1
  /\ LegacyName(1) \notin DOMAIN files
  /\ \E n \in DOMAIN files :
       ~files[n].isDir /\ files[n].mtime = now - LogRetention

\* goroutine th returns from a Reload() that read the same task list as the
\* Reload() that returned before it
SecondReload(th) ==
  /\ Unlocks(th)
  /\ pc[th] = "Rebuild"
  /\ last.ok
  /\ tasks[th] = last.snap

\* C8 as stated: two Reload() calls in succession with no store change between
\* them leave the registry identical after the second to what it was after
\* the first.
C8_IdenticalRegistry ==
  [][\A th \in Threads : SecondReload(th) => entries' = last.reg]_vars

\* C8 amended: two Reload() calls in succession with no store change between
\* them leave the registry with the same task ids, each bound to exactly one
\* live trigger running the same task definition; the trigger handles are
\* newly allocated, so the handle values differ from those of the first call.
C8_SameTasksFreshHandles ==
  [][\A th \in Threads :
       SecondReload(th) =>
         /\ OneTriggerEach(entries', cron', DOMAIN last.reg, last.snap)
         /\ \A i \in DOMAIN entries' : entries'[i] \notin Range(last.reg)]_vars

\* C8 witness: a Reload() has returned that read the same list as the one
\* before it, and the registry is not empty.
C8_Witness ==
  /\ last.same
  /\ last.reg # EmptyFn
  /\ entries = last.reg

\* the store operations C9 names, and a running command
NamedStoreOps == {"GetTasks", "GetTaskByID", "UpdateLastRun", "DeleteTask"}

C10_ReloadSafe ==
  /\ \A a, b \in Threads :
       (pc[a] \in {"GetTasks", "Rebuild"} /\ pc[b] \in {"GetTasks", "Rebuild"})
         => a = b
  /\ (\A th \in Threads : pc[th] \notin {"GetTasks", "Rebuild"}) =>
       /\ TaskEntries(cron) = Range(entries)
       /\ \A i, j \in DOMAIN entries : entries[i] = entries[j] => i = j
       /\ \A e, f \in TaskEntries(cron) : cron[e].t.id = cron[f].t.id => e = f

\* C10 witness: a Reload() waits for the lock while another goroutine's
\* Reload() is rebuilding from a list with an enabled task, after an earlier
\* Reload() has returned.
C10_Witness ==
  \E a, b \in Threads :
    /\ pc[a] = "Lock"
    /\ pc[b] = "Rebuild"
    /\ \E i \in DOMAIN tasks[b] : tasks[b][i].enabled
    /\ last.n > 0

\* C11: the rebuild of a Reload() skips every enabled task whose schedule is
\* malformed (no registry entry, no trigger), still completes (unlocks and
\* returns), and gives every enabled task with a well-formed schedule its
\* trigger, wherever the malformed task stands in the list.
C11_MalformedSkipped ==
  [][\A th \in Threads :
       (pc[th] = "Rebuild" /\ Steps(th)) =>
         /\ mu' = NoThread
         /\ pc'[th] = AfterReload(th)
         /\ \A i \in DOMAIN tasks[th] :
              LET task == tasks[th][i] IN
                /\ (task.enabled /\ task.schedule = BadSchedule) =>
                     /\ i \notin DOMAIN entries'
                     /\ \A e \in TaskEntries(cron') : cron'[e].t.id # i
                /\ (task.enabled /\ task.schedule = GoodSchedule) =>
                     /\ i \in DOMAIN entries'
                     /\ entries'[i] \in DOMAIN cron'
                     /\ cron'[entries'[i]] = TaskJob(task)]_vars

\* C11 witness: a Reload() has returned whose list held an enabled task with a
\* malformed schedule before an enabled task with a well-formed one; the
\* first has no registry entry and the second has its trigger.
C11_Witness ==
  /\ last.ok
  /\ entries = last.reg
  /\ \E i, j \in DOMAIN last.snap :
       /\ i < j
       /\ last.snap[i].enabled /\ last.snap[i].schedule = BadSchedule
       /\ last.snap[j].enabled /\ last.snap[j].schedule = GoodSchedule
       /\ i \notin DOMAIN entries
       /\ j \in DOMAIN entries /\ entries[j] \in DOMAIN cron

\* C12: when the log directory cannot be created or the log file cannot be
\* opened, the run returns an error at once: it never starts the command,
\* makes no DeleteTask and no Reload (also for a one-shot task), reports
\* deleted = false, and leaves the store, the log files, the registry and
\* every trigger of the schedule engine as they were.
C12_LogFailureAborts ==
  [][\A th \in Threads :
       (pc[th] = "OpenLog" /\ Steps(th)
          /\ err'[th] = "failed to open log file") =>
         /\ pc'[th] = "ret"
         /\ RunStatus(err'[th]) = 500
         /\ ~deleted'[th]
         /\ "exec" \notin Range(did'[th])
         /\ "DeleteTask" \notin Range(did'[th])
         /\ "Lock" \notin Range(did'[th])
         /\ UNCHANGED <<store, entries, cron, nextEntry, files>>]_vars

\* C12 witness: a run of a one-shot task has returned the log-file error; the
\* task is still in the store and its trigger is still registered.
C12_Witness ==
  \E th \in Threads :
    /\ pc[th] = "ret" /\ op[th] \in RunOps
    /\ err[th] = "failed to open log file"
    /\ t[th].one_shot
    /\ t[th].id \in DOMAIN store
    /\ t[th].id \in DOMAIN entries
    /\ entries[t[th].id] \in DOMAIN cron

\* the error a run returns, read off what it did after its UpdateLastRun call
OutcomeErr(d) ==
  CASE "OpenFile failed" \in Range(d) -> "failed to open log file"
    [] "exec failed" \in Range(d) -> "launch failure"
    [] "failed: empty command" \in Range(d) -> "empty command"
    [] "exit 1" \in Range(d) -> "exit status 1"
    [] "DeleteTask failed" \in Range(d) -> "failed to delete one-shot task"
    [] OTHER -> "nil"

\* C13: whether UpdateLastRun succeeds or fails, the run goes on to open the
\* log file with no error recorded; a run whose UpdateLastRun failed and that
\* meets no other failure opens the log, starts the command unless it is
\* empty, and returns the outcome (error, one-shot consumed) that its command
\* and its deletion alone determine.
C13_UpdateFailureGoesOn ==
  [][\A th \in Threads :
       /\ (pc[th] = "UpdateLastRun" /\ Steps(th)) =>
            /\ pc'[th] = "OpenLog"
            /\ err'[th] = "nil"
            /\ UNCHANGED <<t, tnow, deleted, files, entries, cron>>
       /\ (pc'[th] = "ret" /\ Steps(th) /\ op[th] \in RunOps
             /\ "UpdateLastRun failed" \in Range(did'[th])) =>
            /\ err'[th] = OutcomeErr(did'[th])
            /\ deleted'[th] = ("Unlock" \in Range(did'[th]))
            /\ deleted'[th] =>
                 /\ t[th].one_shot
                 /\ "exit 0" \in Range(did'[th])
            /\ "OpenFile failed" \notin Range(did'[th]) =>
                 /\ "OpenFile" \in Range(did'[th])
                 /\ "started" \in Range(did'[th])
                 /\ t[th].command # "" =>
                      \/ "exec" \in Range(did'[th])
                      \/ "exec failed" \in Range(did'[th])
            /\ ("exit 0" \in Range(did'[th]) /\ ~t[th].one_shot) =>
                 err'[th] = "nil"]_vars

\* C13 witness: a run of a one-shot task whose UpdateLastRun failed has run
\* its command to success and consumed the task.
C13_Witness ==
  \E th \in Threads :
    /\ pc[th] = "ret" /\ op[th] \in RunOps
    /\ "UpdateLastRun failed" \in Range(did[th])
    /\ "finished successfully" \in Range(did[th])
    /\ deleted[th]
    /\ err[th] = "nil"
    /\ t[th].id \notin DOMAIN store

\* the markers that close a run's block in its log
OutcomeMarkers ==
  {"finished successfully", "failed: exit status 1", "failed: launch",
   "failed: empty command"}

\* C14: RunTaskNow(id) takes the task from the store as it is when read,
\* whether or not it is enabled or registered, and goes on to run that copy;
\* the registry is not consulted or changed by the read; the call keeps its
\* goroutine until the run is over, and returns from a run that opened the log
\* only after the command has ended and its outcome marker has been written.
C14_RunNowFromStore ==
  [][\A th \in Threads :
       op[th] = "RunNow" =>
         /\ (pc[th] = "GetTaskByID" /\ Steps(th) /\ taskID[th] \in DOMAIN store
               /\ did'[th] = <<"GetTaskByID">>) =>
              /\ t'[th] = store[taskID[th]]
              /\ pc'[th] = "UpdateLastRun"
              /\ UNCHANGED <<entries, cron>>
         /\ (pc[th] \notin {"GetTaskByID", "ret"} /\ Steps(th)) =>
              /\ t'[th] = t[th]
              /\ op'[th] = "RunNow"
         /\ (pc[th] = "cmdRun" /\ Steps(th)) =>
              /\ t[th].command # ""
              /\ fh[th] \in DOMAIN files =>
                   /\ fh[th] \in DOMAIN files'
                   /\ \E m \in OutcomeMarkers :
                        m \in Range(files'[fh[th]].lines)
                          /\ m = did'[th][Len(did'[th])]
         /\ (pc'[th] = "ret" /\ Steps(th) /\ "OpenFile" \in Range(did'[th])) =>
              \E m \in OutcomeMarkers : m \in Range(did'[th])]_vars

\* C14 witness: RunTaskNow on a disabled task, which has no registry entry,
\* has run its command to success and returned nil.
C14_Witness ==
  \E th \in Threads :
    /\ pc[th] = "ret" /\ op[th] = "RunNow"
    /\ ~t[th].enabled
    /\ t[th].id \notin DOMAIN entries
    /\ "finished successfully" \in Range(did[th])
    /\ err[th] = "nil"

\* the failed markers of a run
FailedMarkers ==
  {"failed: exit status 1", "failed: launch", "failed: empty command"}

\* the last line of log file name in directory fs
LastLine(fs, name) ==
  IF name \in DOMAIN fs /\ Len(fs[name].lines) > 0
  THEN fs[name].lines[Len(fs[name].lines)]
  ELSE "none"

\* C15: a manual run that ends in an execution error (empty command, non-zero
\* exit, launch failure) appends the failed marker to the task's log for the
\* day and returns a non-nil error (HTTP 500) to the caller of RunTaskNow;
\* RunTaskNow returns nil only after the command exited with success and,
\* for a one-shot task, the deletion succeeded.
C15_ManualRunErrors ==
  [][\A th \in Threads :
       (op[th] = "RunNow" /\ Steps(th)) =>
         /\ \A m \in FailedMarkers :
              (Len(did'[th]) > Len(did[th]) /\ did'[th][Len(did'[th])] = m) =>
                /\ pc'[th] = "ret"
                /\ err'[th] \notin {"nil", "not found"}
                /\ RunStatus(err'[th]) = 500
                /\ LET name == IF pc[th] = "cmdRun" THEN fh[th]
                               ELSE DailyName(t[th].id, Day(tnow[th]))
                   IN name # Unlinked => LastLine(files', name) = m
         /\ (pc[th] = "OpenLog" /\ t[th].command = "") =>
              \/ did'[th][Len(did'[th])] = "failed: empty command"
              \/ err'[th] = "failed to open log file"
         /\ (pc'[th] = "ret" /\ err'[th] = "nil") =>
              /\ "exit 0" \in Range(did'[th])
              /\ "finished successfully" \in Range(did'[th])
              /\ \A m \in FailedMarkers : m \notin Range(did'[th])
              /\ t[th].one_shot =>
                   /\ "DeleteTask" \in Range(did'[th])
                   /\ t[th].id \notin DOMAIN store']_vars

\* C15 witness: a manual run has returned the error of a command that exited
\* non-zero, and the failed marker is the last line of the task's log.
C15_Witness ==
  \E th \in Threads :
    /\ pc[th] = "ret" /\ op[th] = "RunNow"
    /\ err[th] = "exit status 1"
    /\ LastLine(files, DailyName(t[th].id, Day(tnow[th]))) = "failed: exit status 1"

\* the lines of the per-day files of task id for the days of D, in ascending
\* order of the day
RECURSIVE DailyLines(_, _, _)
DailyLines(fs, id, D) ==
  IF D = {} THEN <<>>
  ELSE LET d == Min(D) IN
       (IF DailyName(id, d) \in DOMAIN fs /\ ~fs[DailyName(id, d)].isDir
        THEN fs[DailyName(id, d)].lines ELSE <<>>)
       \o DailyLines(fs, id, D \ {d})

\* C16: when task N has a log file, the response to reading its logs is the
\* content of the legacy file task_N.log (if it exists), then the contents of
\* the per-day files task_N_<date>.log in ascending order of the date, and
\* nothing else: no line of another task's files, task 10's for N = 1 included.
C16_LogsInOrder ==
  [][\A th \in Threads :
       (pc[th] = "GetLogs" /\ Steps(th)
          /\ \E n \in DOMAIN files : n[2] = taskID[th]) =>
         resp'[th] =
           Lines(files, LegacyName(taskID[th]))
             \o DailyLines(files, taskID[th], LogDays)]_vars

\* C16 witness: the logs of task 1 have been read from a directory that holds
\* its legacy file, its files of two days and the files of task 10.
C16_Witness ==
  \E th \in Threads :
    /\ pc[th] = "ret" /\ op[th] = "Logs" /\ taskID[th] = 1
    /\ DOMAIN files = DOMAIN LogFiles
    /\ resp[th] = <<"task 1 legacy", "task 1 day 02", "task 1 day 10">>

\* C17 as stated: the write of a partial update sets exactly the fields present
\* in the request to the supplied values and leaves every other field of the
\* row as it was; a request naming no field is rejected and changes nothing
\* in the store.
C17_PartialUpdate ==
  [][\A th \in Threads :
       (op[th] = "Update" /\ Steps(th)) =>
         /\ (pc[th] = "UpdateTask" /\ pc'[th] = "Lock"
               /\ t[th].id \in DOMAIN store) =>
              /\ DOMAIN store' = DOMAIN store
              /\ \A i \in DOMAIN store \ {t[th].id} : store'[i] = store[i]
              /\ \A f \in DOMAIN store[t[th].id] :
                   store'[t[th].id][f] =
                     IF f \in DOMAIN req[th] THEN req[th][f]
                     ELSE store[t[th].id][f]
         /\ pc[th] # "UpdateTask" => store' = store
         /\ isEmpty(req[th]) =>
              /\ store' = store
              /\ pc'[th] \in {"ret", "idle"}
              /\ pc'[th] = "ret" => err'[th] # "nil"]_vars

\* the per-day file of task id for a run that started at instant at
RunFile(id, at) == <<"task", id, at \div DayLen>>

\* the days the clock reaches
RunDays == 0..(MaxTime \div DayLen)

\* C18: every step of a run changes no log file but the per-day file of its
\* task id and of the day of its start instant, to which it only appends (a
\* file that exists is reused, not replaced); the legacy file of the task is
\* never written; the names of the per-day files of two tasks, or of two
\* days, differ as text, and differ from every legacy name.
C18_OneFilePerTaskAndDay ==
  [][/\ \A th \in Threads :
          (op[th] \in RunOps /\ Steps(th)) =>
            LET name == RunFile(t[th].id, tnow[th]) IN
              /\ fh'[th] \in {NoFile, Unlinked, name}
              /\ \A n \in (DOMAIN files \cup DOMAIN files') \ {name} :
                   /\ n \in DOMAIN files /\ n \in DOMAIN files'
                   /\ files'[n] = files[n]
              /\ name \in DOMAIN files =>
                   /\ name \in DOMAIN files'
                   /\ Len(files'[name].lines) >= Len(files[name].lines)
                   /\ SubSeq(files'[name].lines, 1, Len(files[name].lines))
                        = files[name].lines
              /\ (pc[th] = "OpenLog" /\ "OpenFile" \in Range(did'[th])) =>
                   /\ name \in DOMAIN files'
                   /\ "started" \in Range(files'[name].lines)
              /\ LegacyName(t[th].id) \in DOMAIN files =>
                   /\ LegacyName(t[th].id) \in DOMAIN files'
                   /\ files'[LegacyName(t[th].id)] = files[LegacyName(t[th].id)]
     /\ (\E th \in Threads : pc[th] = "OpenLog" /\ Steps(th)) =>
          \A i, j \in Ids, d, e \in RunDays :
            /\ FileText(DailyName(i, d)) = FileText(DailyName(j, e)) =>
                 (i = j /\ d = e)
            /\ FileText(DailyName(i, d)) # FileText(LegacyName(j))
            /\ DailyName(i, d) = RunFile(i, d * DayLen)]_vars

\* the number of lines of s that are the line x
RECURSIVE Count(_, _)
Count(s, x) ==
  IF s = <<>> THEN 0
  ELSE (IF Head(s) = x THEN 1 ELSE 0) + Count(Tail(s), x)

\* C18 witness: two runs of task 1 that started on day 0 have written their
\* blocks to the same per-day file, and the legacy file is as it was.
C18_Witness ==
  /\ RunFile(1, 0) \in DOMAIN files
  /\ Count(files[RunFile(1, 0)].lines, "started") = 2
  /\ Count(files[RunFile(1, 0)].lines, "finished successfully") = 2
  /\ LegacyName(1) \in DOMAIN files
  /\ files[LegacyName(1)].lines = <<"legacy">>

\* C19: a row gets its created_at from CreateTask, the time of the insert,
\* with a zero last_run; no later step of any operation changes created_at
\* of a row; a step that calls UpdateTask leaves last_run of every row as it
\* was, and a step that calls UpdateLastRun changes nothing but last_run of
\* its row.
C19_CreatedAtImmutable ==
  [][/\ \A i \in DOMAIN store \cap DOMAIN store' :
          store'[i].created_at = store[i].created_at
     /\ \A i \in DOMAIN store' \ DOMAIN store :
          /\ \E th \in Threads : pc[th] = "CreateTask" /\ Steps(th)
          /\ store'[i].created_at = now
          /\ store'[i].last_run = 0
     /\ \A th \in Threads :
          /\ (pc[th] = "UpdateTask" /\ Steps(th)) =>
               /\ DOMAIN store' = DOMAIN store
               /\ \A i \in DOMAIN store :
                    /\ store'[i].last_run = store[i].last_run
                    /\ store'[i].id = store[i].id
          /\ (pc[th] = "UpdateLastRun" /\ Steps(th)) =>
               /\ DOMAIN store' = DOMAIN store
               /\ \A i \in DOMAIN store :
                    \A f \in DOMAIN store[i] :
                      (f # "last_run" \/ i # t[th].id) => store'[i][f] = store[i][f]]_vars

\* C19 witness: a task created by CreateTask at an earlier instant has since
\* been updated, and its created_at is still the instant of its creation.
C19_Witness ==
  \E th \in Threads :
    /\ pc[th] = "ret" /\ op[th] = "Update"
    /\ "UpdateTask" \in Range(did[th])
    /\ t[th].id \in DOMAIN store
    /\ store[t[th].id].created_at # 0
    /\ store[t[th].id].created_at < now
    /\ store[t[th].id].name = "b"

\* this step adds, removes or replaces a registry entry or a task trigger
RegistryChanges ==
  \/ entries' # entries
  \/ TaskEntries(cron') # TaskEntries(cron)
  \/ \E e \in TaskEntries(cron) \cap TaskEntries(cron') : cron'[e] # cron[e]

\* C20 as stated: whenever no Reload() holds the lock and the most recent
\* Reload() read the task list, the registry holds exactly one live trigger
\* for every task that list showed enabled, and none else.
C20_RegistryIsEnabledSet ==
  (mu = NoThread /\ last.ok) =>
    OneTriggerEach(entries, cron,
                   {i \in DOMAIN last.snap : last.snap[i].enabled}, last.snap)

\* C20 amended: only the steps of Reload() that clear and rebuild change the
\* registry or a task trigger; whenever no Reload() holds the lock, the
\* registry holds exactly one live trigger for every task that the most
\* recent Reload() read as enabled with a well-formed schedule, and none
\* else (it is empty when that Reload() could not read the list).
C20_RegistryChangedOnlyByReload ==
  [][/\ RegistryChanges =>
          \E th \in Threads : pc[th] \in {"Lock", "Rebuild"} /\ Steps(th)
     /\ mu' = NoThread =>
          OneTriggerEach(entries', cron',
                         {i \in DOMAIN last'.snap :
                            /\ last'.snap[i].enabled
                            /\ last'.snap[i].schedule = GoodSchedule},
                         last'.snap)]_vars

\* C20 witness: a scheduled run of a task that is not one-shot has returned
\* after changing the store, and the registry is still the one the most
\* recent Reload() built.
C20_Witness ==
  \E th \in Threads :
    /\ pc[th] = "ret" /\ op[th] = "Fire" /\ ~t[th].one_shot
    /\ mu = NoThread
    /\ last.ok
    /\ store # last.snap
    /\ entries = last.reg
    /\ t[th].id \in DOMAIN entries

\* a occurs before b in the calls d
Before(d, a, b) ==
  \E i, j \in 1..Len(d) : i < j /\ d[i] = a /\ d[j] = b

\* C21: a run of a one-shot task whose command succeeded calls DeleteTask;
\* when that succeeds the task is gone from the store, the run goes on to a
\* Reload() and returns deleted = true with a nil error, which no run of an
\* ordinary task and no failed run returns; when DeleteTask fails the run
\* returns an error with deleted = false, makes no Reload, and the step
\* leaves the store, the registry and the triggers as they were.
C21_OneShotConsumed ==
  [][\A th \in Threads :
       (op[th] \in RunOps /\ Steps(th)) =>
         /\ (pc[th] = "cmdRun" /\ "exit 0" \in Range(did'[th])) =>
              IF t[th].one_shot
              THEN pc'[th] = "DeleteTask"
              ELSE pc'[th] = "ret" /\ ~deleted'[th] /\ err'[th] = "nil"
         /\ pc[th] = "DeleteTask" =>
              IF err'[th] = "nil"
              THEN /\ t[th].id \notin DOMAIN store'
                   /\ pc'[th] = "Lock"
                   /\ UNCHANGED <<entries, cron>>
              ELSE /\ err'[th] = "failed to delete one-shot task"
                   /\ RunStatus(err'[th]) = 500
                   /\ pc'[th] = "ret"
                   /\ ~deleted'[th]
                   /\ "Lock" \notin Range(did'[th])
                   /\ UNCHANGED <<store, entries, cron>>
         /\ pc'[th] = "ret" =>
              /\ deleted'[th] <=>
                   /\ t[th].one_shot
                   /\ Before(did'[th], "finished successfully", "DeleteTask")
                   /\ Before(did'[th], "DeleteTask", "Lock")
                   /\ "Unlock" \in Range(did'[th])
              /\ deleted'[th] => err'[th] = "nil" /\ t[th].id \in consumed'
              /\ "Lock" \in Range(did'[th]) => deleted'[th]]_vars

\* C21 witness: a scheduled run of a one-shot task has succeeded, deleted the
\* task, reloaded and returned deleted = true; the task is in neither the
\* store nor the registry.
C21_Witness ==
  \E th \in Threads :
    /\ pc[th] = "ret" /\ op[th] = "Fire" /\ t[th].one_shot
    /\ deleted[th] /\ err[th] = "nil"
    /\ did[th] = <<"UpdateLastRun", "OpenFile", "started", "exec", "exit 0",
                   "finished successfully", "DeleteTask",
                   "one-shot task deleted", "Lock", "GetTasks", "Unlock">>
    /\ t[th].id \notin DOMAIN store
    /\ t[th].id \notin DOMAIN entries

\* how far a run has come: its statements in the order of the code
Rank(p) ==
  CASE p = "GetTaskByID" -> 0
    [] p = "UpdateLastRun" -> 1
    [] p = "OpenLog" -> 2
    [] p = "cmdRun" -> 3
    [] p = "DeleteTask" -> 4
    [] p = "Lock" -> 5
    [] p = "GetTasks" -> 6
    [] p = "Rebuild" -> 7
    [] p = "ret" -> 8
    [] OTHER -> 9

\* the calls of cmd.Run() among the calls d
Launches(d) == Count(d, "exec") + Count(d, "exec failed")

\* C22: one invocation of runTask calls cmd.Run() at most once, and exactly
\* once by the time it returns when it opened the log file and the command is
\* not empty; every step of a run moves forward in the code, never back to
\* the command, and a step that records a failure returns to the caller, so
\* the command runs again only in a new invocation begun by a firing or a
\* manual run.
C22_AtMostOnce ==
  [][\A th \in Threads :
       (op[th] \in RunOps /\ Steps(th)) =>
         /\ Launches(did'[th]) <= 1
         /\ pc[th] # "ret" => Rank(pc'[th]) > Rank(pc[th])
         /\ pc[th] = "ret" => pc'[th] = "idle" /\ did'[th] = <<>>
         /\ pc'[th] = "cmdRun" => pc[th] = "OpenLog" /\ Launches(did[th]) = 0
         /\ (pc'[th] = "ret" /\ "OpenFile" \in Range(did'[th])) =>
              Launches(did'[th]) = IF t[th].command = "" THEN 0 ELSE 1
         /\ (pc'[th] = "ret" /\ "OpenFile" \notin Range(did'[th])) =>
              Launches(did'[th]) = 0
         /\ (err[th] = "nil" /\ err'[th] # "nil") => pc'[th] = "ret"]_vars

\* C22 witness: a scheduled run of task 1 has failed and returned, its trigger
\* is still live, and a second firing of the same task has launched the
\* command once more and failed too.
C22_Witness ==
  \E th \in Threads :
    /\ pc[th] = "ret" /\ op[th] = "Fire" /\ t[th].id = 1
    /\ err[th] = "exit status 1"
    /\ Launches(did[th]) = 1
    /\ ops = 2
    /\ RunFile(1, 0) \in DOMAIN files
    /\ Count(files[RunFile(1, 0)].lines, "failed: exit status 1") = 2

\* the statements of a run up to the start of its command
BeforeCommand == {"GetTaskByID", "UpdateLastRun", "OpenLog"}

\* C23: a run that has not yet started its command can always take its next
\* step, whatever the other goroutines are doing: no lock or per-task
\* exclusion stands between the begin of a run and the start of its command,
\* also while another run of the same task is executing the command.
C23_NoExclusion ==
  \A th \in Threads :
    (op[th] \in RunOps /\ pc[th] \in BeforeCommand) =>
      ENABLED (GetTaskByIDStep(th) \/ UpdateLastRun(th) \/ OpenLog(th))

\* C23 witness: a scheduled firing and a manual run of the same task are
\* executing the command at the same time.
C23_Witness ==
  \E a, b \in Threads :
    /\ op[a] = "Fire" /\ op[b] = "RunNow"
    /\ pc[a] = "cmdRun" /\ pc[b] = "cmdRun"
    /\ t[a].id = t[b].id

\* the outcome markers among the lines d
Terminals(d) ==
  Count(d, "finished successfully") + Count(d, "failed: exit status 1")
    + Count(d, "failed: launch") + Count(d, "failed: empty command")

\* the lines a run at statement p has written so far, d being what it did
RunMarkersOK(d, p) ==
  IF "OpenFile" \in Range(d)
  THEN /\ Count(d, "started") = 1
       /\ Before(d, "OpenFile", "started")
       /\ Terminals(d) = IF p = "cmdRun" THEN 0 ELSE 1
       /\ "exec" \in Range(d) => Before(d, "started", "exec")
       /\ "exec failed" \in Range(d) =>
            /\ Before(d, "started", "exec failed")
            /\ Before(d, "exec failed", "failed: launch")
       /\ "exit 1" \in Range(d) =>
            /\ Before(d, "exec", "exit 1")
            /\ Before(d, "exit 1", "failed: exit status 1")
       /\ "finished successfully" \in Range(d) =>
            /\ Before(d, "exec", "exit 0")
            /\ Before(d, "exit 0", "finished successfully")
            /\ "exit 1" \notin Range(d)
            /\ "exec failed" \notin Range(d)
       /\ "failed: exit status 1" \in Range(d) => "exit 1" \in Range(d)
       /\ "failed: launch" \in Range(d) => "exec failed" \in Range(d)
  ELSE Count(d, "started") = 0 /\ Terminals(d) = 0

\* C24: a run that has opened its log file has written exactly one "started"
\* marker, before cmd.Run() is called, no outcome marker while the command
\* runs, and from the end of the command to its return exactly one outcome
\* marker, "finished successfully" or one of the "failed" markers, the first
\* only after an exit with success; a run that could not open the file writes
\* no marker; and each marker a step writes is appended once to the run's
\* per-day file (unless the file was removed under the open handle).
C24_OneBlockPerRun ==
  [][\A th \in Threads :
       (op[th] \in RunOps /\ Steps(th) /\ pc[th] # "ret") =>
         /\ RunMarkersOK(did'[th], pc'[th])
         /\ pc[th] \in {"OpenLog", "cmdRun"} =>
              LET name == RunFile(t[th].id, tnow[th])
                  new == SubSeq(did'[th], Len(did[th]) + 1, Len(did'[th]))
              IN (pc[th] = "cmdRun" => fh[th] = name) =>
                   \A m \in OutcomeMarkers \cup {"started"} :
                     Count(Lines(files', name), m) =
                       Count(Lines(files, name), m) + Count(new, m)]_vars

\* C24 witness: a run of a one-shot task has written "started" and
\* "finished successfully", then failed to delete the task and returned the
\* error; its block in the day's file has one marker of each kind.
C24_Witness ==
  \E th \in Threads :
    /\ pc[th] = "ret" /\ op[th] \in RunOps
    /\ err[th] = "failed to delete one-shot task"
    /\ Count(did[th], "started") = 1
    /\ Terminals(did[th]) = 1
    /\ Lines(files, RunFile(t[th].id, tnow[th])) =
         <<"started", "hi", "finished successfully",
           "failed to delete one-shot task">>

\* the janitor's triggers in the schedule engine
JanitorEntries(c) == {e \in DOMAIN c : c[e].kind = "janitor"}

\* what Start() has done when it calls StartLogJanitor: the clock, then one
\* Reload() from Lock to Unlock
StartDid ==
  { <<"cron.Start", "Lock", "GetTasks", "Unlock">>,
    <<"cron.Start", "Lock", "GetTasks failed", "Unlock">> }

\* C25: Start() first starts the schedule engine's clock, then runs one
\* Reload() from Lock to Unlock, then calls StartLogJanitor, which registers
\* the one hourly trigger and launches the one startup purge; before that
\* call there is no janitor trigger, no purge goroutine and no pass, and when
\* it is made the initial Reload() has returned and released the lock.
C25_StartOrder ==
  [][/\ \A th \in Threads :
          (op[th] = "Start" /\ Steps(th)) =>
            /\ pc[th] = "Start" =>
                 /\ ~running /\ running'
                 /\ last.n = 0
                 /\ pc'[th] = "Lock"
            /\ pc[th] = "Lock" => running /\ pc'[th] = "GetTasks"
            /\ pc[th] \in {"GetTasks", "Rebuild"} /\ Unlocks(th) =>
                 pc'[th] = "StartLogJanitor"
            /\ pc[th] = "StartLogJanitor" =>
                 /\ did[th] \in StartDid
                 /\ mu # th
                 /\ last.n >= 1
                 /\ running
                 /\ JanitorEntries(cron) = {}
                 /\ Cardinality(JanitorEntries(cron')) = 1
                 /\ ~goPurge /\ goPurge'
                 /\ UNCHANGED <<entries, store>>
                 /\ TaskEntries(cron') = TaskEntries(cron)
     /\ (\E th \in Threads : op'[th] = "Start") =>
          /\ JanitorEntries(cron') = {}
          /\ ~goPurge'
          /\ \A x \in Threads : op'[x] # "Purge"
     /\ (\A th \in Threads : op'[th] # "Start") =>
          /\ Cardinality(JanitorEntries(cron')) = 1
          /\ serving' /\ running' /\ last'.n >= 1]_vars

\* C25 witness: Start() has returned; its Reload() registered the stored task
\* before the janitor's trigger was added, and the startup purge is launched
\* but has not run yet.
C25_Witness ==
  /\ serving
  /\ goPurge
  /\ last.n = 1 /\ last.ok
  /\ \E i \in DOMAIN entries, j \in JanitorEntries(cron) : entries[i] < j

\* C26: a janitor pass never holds the registry lock and needs nothing to
\* start: whenever a goroutine is at PurgeOldLogs the pass can run, also
\* while another goroutine is inside Reload() or a run; the pass leaves the
\* store, the registry, the schedule engine and the lock as they were, and
\* in the log directory it only removes entries, leaving every other entry
\* unchanged.
C26_JanitorDisjoint ==
  [][\A th \in Threads :
       /\ (op[th] = "Purge" \/ op'[th] = "Purge") => mu # th /\ mu' # th
       /\ pc[th] = "PurgeOldLogs" => ENABLED PurgeOldLogs(th)
       /\ (pc[th] = "PurgeOldLogs" /\ Steps(th)) =>
            /\ UNCHANGED <<store, nextId, entries, cron, nextEntry, mu,
                           dirExists, tasks, t, err, deleted, did>>
            /\ DOMAIN files' \subseteq DOMAIN files
            /\ \A n \in DOMAIN files' : files'[n] = files[n]
            /\ \A x \in Threads \ {th} : pc'[x] = pc[x]]_vars

\* C26 witness: one goroutine holds the registry lock inside Reload() while
\* a janitor pass is due that can run at this point and removes an expired
\* log file without touching the lock.
C26_Witness ==
  \E a, b \in Threads :
    /\ mu = b /\ pc[b] \in {"GetTasks", "Rebuild"}
    /\ pc[a] = "PurgeOldLogs"
    /\ Purged(files, now) # {}
    /\ ENABLED (PurgeOldLogs(a) /\ files' # files /\ mu' = b)

\* the expired regular files inside the subdirectories of fs
ExpiredInside(fs, at) ==
  {<<n, m>> \in (DOMAIN fs) \X {LegacyName(1)} :
     /\ fs[n].isDir
     /\ m \in DOMAIN fs[n].inside
     /\ Expired(fs[n].inside[m].mtime, at - LogRetention)}

\* C27: a janitor pass removes only regular files listed directly in the log
\* directory: every subdirectory stays, with everything inside it, however
\* old it is; when the log directory does not exist the pass can still run,
\* removes and creates nothing, and ends as a pass without a failed call.
C27_NonRecursive ==
  [][\A th \in Threads :
       /\ (pc[th] = "PurgeOldLogs" /\ Steps(th)) =>
            /\ \A n \in DOMAIN files :
                 /\ files[n].isDir =>
                      n \in DOMAIN files' /\ files'[n] = files[n]
                 /\ n \notin DOMAIN files' =>
                      /\ ~files[n].isDir
                      /\ Expired(files[n].mtime, now - LogRetention)
            /\ ExpiredInside(files', now) = ExpiredInside(files, now)
            /\ ~dirExists =>
                 /\ files' = files
                 /\ dirExists' = FALSE
                 /\ faults' = faults
                 /\ pc'[th] = "idle"
       /\ (pc[th] = "PurgeOldLogs" /\ ~dirExists) =>
            ENABLED (PurgeOldLogs(th) /\ faults' = faults)]_vars

\* C27 witness: a pass has removed the expired legacy log, and the
\* subdirectory, as old as that log, is still there with the expired file
\* inside it.
C27_Witness ==
  /\ dirExists
  /\ LegacyName(1) \notin DOMAIN files
  /\ <<"archive">> \in DOMAIN files
  /\ Expired(files[<<"archive">>].mtime, now - LogRetention)
  /\ ExpiredInside(files, now) = {<< <<"archive">>, LegacyName(1)>>}

\* every request has returned and no run is in flight
Quiescent ==
  /\ serving
  /\ \A th \in Threads : pc[th] \in {"idle", "ret", "PurgeOldLogs"}

\* the tasks of store s that are enabled and have a schedule the parser accepts
Schedulable(s) == {i \in DOMAIN s : s[i].enabled /\ ParseOK(s[i].schedule)}

\* C28: whenever every create, update and delete request has returned and no
\* run is in flight, and the Reload() that returned last could read the task
\* list, the registry's keys are exactly the tasks that are enabled with a
\* valid schedule in the store as it is now, each key has its own live
\* trigger, and the schedule engine holds no other task trigger.
C28_QuiescentConsistency ==
  (Quiescent /\ last.ok) =>
    /\ DOMAIN entries = Schedulable(store)
    /\ TaskEntries(cron) = Range(entries)
    /\ \A i \in DOMAIN entries : cron[entries[i]].t.id = i
    /\ mu = NoThread

\* C28 witness: a create and an update have both returned after Start(); the
\* created task is registered and the task the update disabled is not.
C28_Witness ==
  /\ \A th \in Threads : pc[th] = "idle"
  /\ ops = 2
  /\ last.n = 3 /\ last.ok
  /\ DOMAIN store = {1, 2}
  /\ ~store[1].enabled
  /\ DOMAIN entries = {2}

\* a goroutine inside Reload() takes its next step: the store call returns,
\* with a list or an error, and the loop and the deferred Unlock() run
ReloadContinues(th) ==
  ReloadGetTasks(th) \/ ReloadGetTasksFail(th) \/ ReloadRebuild(th)

\* the steps of the goroutines within one instant of the clock
NextNow == \E th \in Threads : Step(th) \/ Fault(th)

\* the engine within one instant, when a goroutine inside Reload() keeps
\* running: it gets the lock if the lock stays free, and the store call it
\* makes returns; nothing is assumed about commands, requests or firings
LiveSpec ==
  /\ Init
  /\ [][NextNow]_vars
  /\ \A th \in Threads : WF_vars(ReloadLock(th) \/ ReloadContinues(th))

\* C29: a Reload() that has been called, from Start(), a request, a manual
\* run or a trigger callback consuming a one-shot task, gets the lock and
\* returns, whatever the other goroutines do meanwhile; and a lock that is
\* held is released again, also when the store read fails.
C29_NoDeadlock ==
  \A th \in Threads :
    /\ (pc[th] = "Lock") ~> (pc[th] \in {"ret", "StartLogJanitor"} /\ mu # th)
    /\ (mu = th) ~> (mu = NoThread)

\* C29 witness: a trigger callback that consumed a one-shot task has called
\* Reload() and waits for the lock, which a request's Reload() holds.
C29_Witness ==
  \E a, b \in Threads :
    /\ op[a] = "Fire" /\ pc[a] = "Lock"
    /\ "DeleteTask" \in Range(did[a])
    /\ mu = b /\ pc[b] = "GetTasks"
    /\ op[b] \notin RunOps

\* C30: a Reload() whose GetTasks fails returns with the registry empty and
\* no task trigger live in the schedule engine, the triggers registered
\* before it included; and as long as the Reload() that returned last is a
\* failed one, the registry stays empty, no task trigger is live and no
\* scheduled firing of a task begins.
C30_FailedReloadEmpties ==
  [][/\ \A th \in Threads :
          (pc[th] = "GetTasks" /\ Steps(th)
             /\ "GetTasks failed" \in Range(did'[th])) =>
            /\ entries' = EmptyFn
            /\ TaskEntries(cron') = {}
            /\ mu' = NoThread
            /\ last'.n = last.n + 1 /\ ~last'.ok
            /\ pc'[th] = AfterReload(th)
     /\ (last.n > 0 /\ ~last.ok) =>
          /\ entries = EmptyFn /\ TaskEntries(cron) = {}
          /\ \A x \in Threads : op'[x] = "Fire" => op[x] = "Fire"
     /\ (last'.n > 0 /\ ~last'.ok) =>
          entries' = EmptyFn /\ TaskEntries(cron') = {}]_vars

\* C30 witness: after Start() registered a task trigger, a request's Reload()
\* failed to read the store; the store still holds an enabled task with a
\* valid schedule, but the registry is empty and no task trigger is live.
C30_Witness ==
  /\ serving
  /\ last.n = 2 /\ ~last.ok
  /\ mu = NoThread
  /\ nextEntry >= 2
  /\ Schedulable(store) # {}
  /\ entries = EmptyFn
  /\ TaskEntries(cron) = {}

\* C31 as stated: a run removes a task from the store only if the store's
\* record of the task, as it is when the run deletes, has one_shot = true.
C31_DeletesOnlyOneShot ==
  [][\A th \in Threads :
       (op[th] \in RunOps /\ pc[th] = "DeleteTask" /\ Steps(th)
          /\ t[th].id \in DOMAIN store /\ t[th].id \notin DOMAIN store')
       => store[t[th].id].one_shot]_vars

\* the "finished successfully" markers in the per-day logs of task id
RECURSIVE SuccessfulRuns(_, _)
SuccessfulRuns(id, D) ==
  IF D = {} THEN 0
  ELSE LET d == Min(D) IN
       Count(Lines(files, DailyName(id, d)), "finished successfully")
         + SuccessfulRuns(id, D \ {d})

\* C32 as stated: whenever a run of a one-shot task has finished its command
\* successfully, it is the only run of that task that ever did: the task's
\* logs hold one "finished successfully" marker.
C32_OneShotRunsOnce ==
  \A th \in Threads :
    (op[th] \in RunOps /\ t[th].one_shot
       /\ "finished successfully" \in Range(did[th]))
    => SuccessfulRuns(t[th].id, RunDays) <= 1

\* C33 as stated: when two update requests for the same task that name
\* disjoint fields have both written and returned success, the task's record
\* carries the value each request supplied for each field it named.
C33_DisjointUpdatesBothApply ==
  \A a, b \in Threads :
    (/\ a # b
     /\ op[a] = "Update" /\ op[b] = "Update"
     /\ pc[a] = "ret" /\ pc[b] = "ret"
     /\ err[a] = "nil" /\ err[b] = "nil"
     /\ taskID[a] = taskID[b]
     /\ DOMAIN req[a] \cap DOMAIN req[b] = {}
     /\ taskID[a] \in DOMAIN store)
    => \A f \in DOMAIN req[a] : store[taskID[a]][f] = req[a][f]

\* C34: the janitor's trigger is never in the registry, no step removes or
\* replaces it, Reload()'s cancel-and-clear included, and from the return of
\* Start() on exactly one janitor trigger is live in the schedule engine.
C34_JanitorTriggerStays ==
  [][/\ JanitorEntries(cron) \subseteq JanitorEntries(cron')
     /\ \A e \in JanitorEntries(cron) : cron'[e] = cron[e]
     /\ JanitorEntries(cron') \cap Range(entries') = {}
     /\ serving' => Cardinality(JanitorEntries(cron')) = 1
     /\ \A th \in Threads :
          (pc[th] = "Lock" /\ Steps(th)) =>
            /\ JanitorEntries(cron') = JanitorEntries(cron)
            /\ TaskEntries(cron') = TaskEntries(cron) \ Range(entries)]_vars

\* C34 witness: two requests have reloaded after Start(), the second Reload()
\* cancelled a task trigger that was registered after the janitor's, and
\* the janitor's trigger is live.
C34_Witness ==
  /\ serving
  /\ last.n = 3
  /\ mu = NoThread
  /\ entries = EmptyFn
  /\ nextEntry >= 3
  /\ \E e \in JanitorEntries(cron) : e < nextEntry

====
